---------------------------- MODULE Spec2Model ----------------------------
(***************************************************************************)
(* A model of Bun (caltechlibrary/bun): the facade and singleton of        *)
(* bun/ui.py, the terminal backend of bun/cli.py, and the windowed backend *)
(* of bun/gui.py with the frame and login dialog of quiche/app_frame.py.   *)
(*                                                                         *)
(* Spec       one caller: UI(...), the facade functions, CLI.start/stop    *)
(* SpecConc   the terminal backend with producer threads and start()       *)
(* SpecGUI    the windowed backend: caller threads, the wx event loop, the *)
(*            dialogs and the user                                         *)
(* SpecRun    SpecGUI with the loop running and never torn down, with the  *)
(*            fairness of the loop, the threads and the user               *)
(* SpecPrompt the prompts of the terminal backend: confirm, file_selection *)
(*            and login_details, with what arrives on the input stream     *)
(***************************************************************************)
EXTENDS Integers, Sequences, FiniteSets, TLC

(***************************************************************************)
(* Bounds of the model.                                                    *)
(***************************************************************************)
\* message calls one caller makes (Spec)
MaxMsgs == 3

\* message calls each producer thread makes (SpecConc)
MaxProdCalls == 2

\* calls the caller threads make on the windowed backend, in all (SpecGUI)
MaxGuiCalls == 2

\* UI(...) calls each thread makes (SpecNew)
MaxNewCalls == 2

\* times the user asks the main window to quit (SpecGUI)
MaxQuits == 1

\* results a login request has received when the dialog last complains of
\* incomplete values (SpecGUI)
MaxComplaints == 1

(***************************************************************************)
(* Values.                                                                 *)
(***************************************************************************)
\* Python's None, where a string may stand as well
None == "<None>"

\* the (name, subtitle) pairs UI(...) is called with
Titles == {<<"demo", None>>, <<"test", "desc">>}

\* the keyword argument force of inform: not given, False, True
ForceVals == {"absent", "false", "true"}

MessageFns == {"inform", "warn", "alert", "alert_fatal"}

PromptFns == {"confirm", "login_details", "file_selection"}

FacadeFns == MessageFns \cup PromptFns

\* UI.__instance before the first UI(...) call
NoInstance == [kind |-> "None", id |-> 0, name |-> None, subtitle |-> None,
               show_banner |-> FALSE, use_gui |-> FALSE, use_color |-> FALSE,
               be_quiet |-> FALSE]

\* mutant: alert_fatal prints with the style of alert
StyleOf_FatalAsAlert(fn) == CASE fn = "inform" -> "info"
                              [] fn = "warn"   -> "warn"
                              [] OTHER         -> "alert"

\* the style each CLI method hands to _print_or_queue
StyleOf(fn) == CASE fn = "inform"      -> "info"
                 [] fn = "warn"        -> "warn"
                 [] fn = "alert"       -> "alert"
                 [] fn = "alert_fatal" -> "fatal"

\* the banner panel CLI.__init__ queues, printed with style 'info'
Banner == [src |-> "init", id |-> 0, style |-> "info"]

\* the threads that call the message methods in SpecConc
Producers == {"p1", "p2"}

\* the message methods the producers call in SpecConc
ProducerFns == {"inform", "alert"}

VARIABLES
    instance,   \* UI.__instance: the backend object and the fields UIBase.__init__ set
    nobjs,      \* backend objects constructed so far
    started,    \* CLI._started
    queue,      \* CLI._queue, head first
    rendered,   \* what CLI._console has printed, in order
    calls,      \* history: the message calls made on the terminal backend
    last,       \* history: the most recent call and how it ended
    ppc,        \* per producer: where it is in its message call
    pn,         \* per producer: message calls begun
    pm,         \* per producer: the message its call holds
    mpc,        \* the thread that calls start(): where it is
    mitem,      \* what start() popped and has not printed yet
    handed,     \* history: the messages handed to _print_or_queue
    loop,       \* wx MainLoop: "idle" before GUI.start, "running", "exited"
    frameAlive, \* the AppFrame of GUI._frame exists (it is the app's TopWindow)
    evq,        \* the calls wx.CallAfter posted, not yet run by the loop
    modal,      \* the dialogs shown by the loop, the newest (on top) last
    sharedQ,    \* entries of GUI._queue
    response,   \* GUI._response
    chan,       \* per caller: the Queue its current request waits on
    textArea,   \* what AppFrame.text_area shows
    cpc,        \* per caller: where it is in its call
    cop,        \* per caller: the call it is in, or made last
    cn,         \* per caller: calls begun
    cret,       \* per caller: what its last call returned
    cdlg,       \* per caller: the dialog it shows itself (alert without a window)
    gcalls,     \* calls begun on the windowed backend, in all
    nquit,      \* times the user asked the main window to quit
    pushed,     \* history, per request: results put on its Queue
    stops,      \* history: 'stop' messages pub.sendMessage published
    fatalAcked, \* history: the user has dismissed a fatal alert
    answered,   \* history, per caller: the request whose yes/no question the
                \* user answered last, and the answer
    tty,        \* sys.stdin.isatty()
    tpc,        \* the terminal prompt: the input it waits at, or "idle"
    tcall,      \* the terminal prompt call: arguments, input_user, history of input
    tret,       \* how the last terminal prompt call ended
    uthr,       \* per thread calling UI(...): where it is, its arguments, the
                \* object it built, what its calls returned
    m2,         \* a second thread that calls start(): where it is, what it popped
    gmain       \* the thread of the wx loop: the blocking call it is inside

uiVars == <<instance, nobjs>>

cliVars == <<started, queue, rendered>>

concVars == <<ppc, pn, pm, mpc, mitem, handed>>

guiVars == <<loop, frameAlive, evq, modal, sharedQ, response, chan, textArea,
             cpc, cop, cn, cret, cdlg, gcalls, nquit, pushed, stops, fatalAcked,
             answered>>

promptVars == <<tty, tpc, tcall, tret>>

moreVars == <<uthr, m2, gmain>>

vars == <<instance, nobjs, started, queue, rendered, calls, last, concVars,
          guiVars, promptVars, moreVars>>

(***************************************************************************)
(* bun/cli.py                                                              *)
(***************************************************************************)

\* mutant: a put that overwrites the newest entry of a queue holding several
QueuePut_LostUpdate(q, m) ==
    IF Len(q) > 1 THEN Append(SubSeq(q, 1, Len(q) - 1), m) ELSE Append(q, m)

\* Queue.put: append at the tail, atomically
QueuePut(q, m) == Append(q, m)

\* mutant: the message is queued whether started or not
PrintOrQueue_AlwaysQueues(st, q, r, m) ==
    [queue |-> QueuePut(q, m), rendered |-> r]

\* CLI._print_or_queue, as one step of a single caller
PrintOrQueue(st, q, r, m) ==
    IF st THEN [queue |-> q, rendered |-> Append(r, m)]
          ELSE [queue |-> QueuePut(q, m), rendered |-> r]

\* mutant: quiet mode ignored
InformShows_IgnoresQuiet(force, quiet) == TRUE

\* the condition under which CLI.inform shows its message
InformShows(force, quiet) == (force = "true") \/ ~quiet

\* the format strings and arguments of the message calls:
\* <<replacement fields of text, positional arguments given>>
FormatCases == {<<1, 1>>, <<2, 1>>, <<1, 2>>}

\* the value of the fmt field of a call that formats nothing
NoFormat == <<0, 0>>

\* mutant: a missing argument is formatted as nothing
Format_Lenient(fields, nargs) == ""

\* text.format(*args): each field takes the next positional argument;
\* IndexError when there is none, arguments left over are ignored
Format(fields, nargs) == IF fields > nargs THEN "IndexError" ELSE ""

\* whether a CLI message method reaches _print_or_queue
MethodShows(fn, force, quiet) ==
    IF fn = "inform" THEN InformShows(force, quiet) ELSE TRUE

\* mutant: the drain pops the newest entry first
RECURSIVE DrainAll_Lifo(_, _)
DrainAll_Lifo(q, r) ==
    IF q = <<>> THEN r
    ELSE DrainAll_Lifo(SubSeq(q, 1, Len(q) - 1), Append(r, q[Len(q)]))

\* mutant: the drain prints again what was printed
DrainAll_Reprints(q, r) == r \o r \o q

\* the loop of CLI.start: pop the head, print it, until the queue is empty
RECURSIVE DrainAll(_, _)
DrainAll(q, r) ==
    IF q = <<>> THEN r ELSE DrainAll(Tail(q), Append(r, Head(q)))

\* mutant: the banner is queued in quiet mode too
QueuesBanner_IgnoresQuiet(show_banner, be_quiet) == show_banner

\* whether CLI.__init__ queues the banner
QueuesBanner(show_banner, be_quiet) == show_banner /\ ~be_quiet

(***************************************************************************)
(* bun/ui.py                                                               *)
(***************************************************************************)
\* the base class of each class: CLI(UIBase), GUI(UIBase), UI(UIBase)
BaseOf(k) == "UIBase"

\* Python calls cls.__init__ on what cls.__new__ returns only if that is an
\* instance of cls: UI.__new__ returns a CLI or a GUI, neither a subclass of UI
IsInstanceOfUI(k) == BaseOf(k) = "UI"

\* mutant: every UI(...) call constructs a backend
NeedsConstruct_Always(inst) == TRUE

\* UI.__new__: "if cls.__instance is None"
NeedsConstruct(inst) == inst.kind = "None"

\* the fields UIBase.__init__ assigns
WithConfig(obj, name, sub, sb, ug, uc, q) ==
    [obj EXCEPT !.name = name, !.subtitle = sub, !.show_banner = sb,
                !.use_gui = ug, !.use_color = uc, !.be_quiet = q]

\* UI(name, subtitle, show_banner, use_gui, use_color, be_quiet)
UINew(name, sub, sb, ug, uc, q) ==
    /\ IF NeedsConstruct(instance)
       THEN /\ instance' = WithConfig([NoInstance EXCEPT
                                          !.kind = IF ug THEN "GUI" ELSE "CLI",
                                          !.id = nobjs + 1],
                                      name, sub, sb, ug, uc, q)
            /\ nobjs' = nobjs + 1
            /\ started' = FALSE
            /\ queue' = IF ~ug /\ QueuesBanner(sb, q) THEN QueuePut(<<>>, Banner)
                        ELSE <<>>
            /\ rendered' = <<>>
       ELSE /\ instance' = IF IsInstanceOfUI(instance.kind)
                           THEN WithConfig(instance, name, sub, sb, ug, uc, q)
                           ELSE instance
            /\ UNCHANGED <<nobjs, started, queue, rendered>>
    /\ last' = [op |-> "UI", err |-> "", ret |-> instance'.id, force |-> "absent",
             fmt |-> NoFormat]
    /\ UNCHANGED <<calls, concVars, guiVars,
                   promptVars, moreVars>>

\* mutant: the lookup on None fails with another error
GetAttr_TypeError(obj) == IF obj.kind = "None" THEN "TypeError" ELSE ""

\* attribute lookup on what UI.instance() returned
GetAttr(obj) == IF obj.kind = "None" THEN "AttributeError" ELSE ""

\* a facade function called while UI.instance() is None: ui.<fn> raises
FacadeUninit(fn, force) ==
    /\ GetAttr(instance) # ""
    /\ last' = [op |-> fn, err |-> GetAttr(instance), ret |-> 0, force |-> force,
             fmt |-> NoFormat]
    /\ UNCHANGED <<instance, nobjs, started, queue, rendered, calls, concVars, guiVars,
                   promptVars, moreVars>>

\* inform, warn, alert, alert_fatal through the facade, terminal backend:
\* inform tests quiet first; then text.format(*args), which may raise; then
\* _print_or_queue
FacadeMessage(fn, force, fc) ==
    /\ GetAttr(instance) = ""
    /\ instance.kind = "CLI"
    /\ Len(calls) < MaxMsgs
    /\ fn = "inform" \/ force = "absent"
    /\ LET shows == MethodShows(fn, force, instance.be_quiet)
           err   == IF shows THEN Format(fc[1], fc[2]) ELSE ""
           m     == [src |-> "main", id |-> Len(calls) + 1, style |-> StyleOf(fn)]
           r     == IF shows /\ err = ""
                    THEN PrintOrQueue(started, queue, rendered, m)
                    ELSE [queue |-> queue, rendered |-> rendered]
       IN /\ queue' = r.queue
          /\ rendered' = r.rendered
          /\ calls' = IF err = ""
                      THEN Append(calls, [fn |-> fn, force |-> force,
                                          before |-> ~started])
                      ELSE calls
          /\ last' = [op |-> fn, err |-> err, ret |-> 0, force |-> force,
                      fmt |-> fc]
    /\ UNCHANGED <<instance, nobjs, started, concVars, guiVars,
                   promptVars, moreVars>>

\* a call posted with wx.CallAfter
Task(task, c, n, a, b) == [task |-> task, c |-> c, n |-> n, a |-> a, b |-> b]

\* wx.CallAfter(pub.sendMessage, 'stop')
StopTask == Task("stop", "", 0, "", "")

\* mutant: the posted call is run before those pending
Post_Front(q, t) == <<t>> \o q

\* wx.CallAfter: append to the pending calls of the app
Post(q, t) == Append(q, t)

\* whether the backend's method is declared with **kwargs
TakesKeywords(kind, fn) ==
    IF kind = "CLI" THEN fn \in {"inform", "alert_fatal"}
                    ELSE fn \in {"alert", "alert_fatal"}

\* the call ui.<fn>(text, *args, **kwargs): a keyword argument that the
\* method does not declare is a TypeError, raised before the body runs
Bind(kind, fn, force) ==
    IF force # "absent" /\ ~TakesKeywords(kind, fn) THEN "TypeError" ELSE ""

\* inform and warn through the facade, windowed backend: the arguments are
\* bound to GUI.inform or GUI.warn; then text.format(*args), which may raise;
\* then the message is posted to the loop
FacadeMessageGui(fn, force, fc) ==
    /\ GetAttr(instance) = ""
    /\ instance.kind = "GUI"
    /\ gcalls < MaxGuiCalls
    /\ fn = "inform" \/ force = "absent"
    /\ LET bound == Bind(instance.kind, fn, force)
           err   == IF bound # "" THEN bound ELSE Format(fc[1], fc[2])
       IN /\ evq' = IF err = ""
                    THEN Post(evq, Task("info_message", "main", gcalls + 1,
                                        IF fn = "inform" THEN "" ELSE "Warning: ",
                                        ""))
                    ELSE evq
          /\ last' = [op |-> fn, err |-> err, ret |-> 0, force |-> force,
                      fmt |-> fc]
    /\ gcalls' = gcalls + 1
    /\ UNCHANGED <<instance, nobjs, started, queue, rendered, calls, concVars,
                   promptVars, moreVars, loop, frameAlive, modal, sharedQ,
                   response, chan,
                   textArea, cpc, cop, cn, cret, cdlg, nquit, pushed, stops,
                   fatalAcked, answered>>

\* CLI.start
CliStart ==
    /\ instance.kind = "CLI"
    /\ rendered' = DrainAll(queue, rendered)
    /\ queue' = <<>>
    /\ started' = TRUE
    /\ last' = [op |-> "start", err |-> "", ret |-> 0, force |-> "absent",
             fmt |-> NoFormat]
    /\ UNCHANGED <<instance, nobjs, calls, concVars, guiVars,
                   promptVars, moreVars>>

\* mutant: stop() resets the started flag
CliStop_Resets ==
    /\ instance.kind = "CLI"
    /\ started' = FALSE
    /\ last' = [op |-> "stop", err |-> "", ret |-> 0, force |-> "absent",
                fmt |-> NoFormat]
    /\ UNCHANGED <<instance, nobjs, queue, rendered, calls, concVars, guiVars,
                   promptVars, moreVars>>

\* CLI.stop
CliStop ==
    /\ instance.kind = "CLI"
    /\ last' = [op |-> "stop", err |-> "", ret |-> 0, force |-> "absent",
             fmt |-> NoFormat]
    /\ UNCHANGED <<instance, nobjs, started, queue, rendered, calls, concVars, guiVars,
                   promptVars, moreVars>>

\* the threads that call the windowed backend in SpecGUI
Callers == {"t1", "t2"}

\* what a call has returned before any call
NoReturn == [kind |-> "none", val |-> None, user |-> None, pswd |-> None,
             cancelled |-> FALSE]

\* a dialog record when no dialog is shown
NoDialog == [kind |-> "none", c |-> "", n |-> 0, a |-> "", b |-> "",
             user |-> None, pswd |-> None, cancel |-> FALSE,
             login |-> "", password |-> ""]

\* the windowed backend's state at rest: GUI.__init__ has (alive) or has not
\* built the frame
GuiAtRest(alive) ==
    /\ loop = "idle"
    /\ frameAlive = alive
    /\ evq = <<>>
    /\ modal = <<>>
    /\ sharedQ = 0
    /\ response = None
    /\ chan = [c \in Callers |-> <<>>]
    /\ textArea = <<>>
    /\ cpc = [c \in Callers |-> "idle"]
    /\ cop = [c \in Callers |-> "none"]
    /\ cn = [c \in Callers |-> 0]
    /\ cret = [c \in Callers |-> NoReturn]
    /\ cdlg = [c \in Callers |-> NoDialog]
    /\ gcalls = 0
    /\ nquit = 0
    /\ pushed = [c \in Callers |-> <<>>]
    /\ stops = 0
    /\ fatalAcked = FALSE
    /\ answered = [c \in Callers \cup {"main"} |-> [n |-> 0, ans |-> None]]

\* no windowed backend
GuiAbsent == GuiAtRest(FALSE)

\* a Python str as the sequence of its characters; None where a str may stand
NoStr == <<None>>

\* what a terminal prompt call has returned or raised before any call
NoResult == [kind |-> "none", user |-> NoStr, pswd |-> NoStr, cancelled |-> FALSE,
             yes |-> FALSE, path |-> NoStr, err |-> ""]

\* no terminal prompt call has been made
NoPrompt == [op |-> "none", user |-> NoStr, pswd |-> NoStr, input_user |-> NoStr,
             evUser |-> "none", typedUser |-> <<>>,
             evPswd |-> "none", typedPswd |-> <<>>]

\* the terminal prompts at rest
PromptIdle(isatty) ==
    /\ tty = isatty
    /\ tpc = "idle"
    /\ tcall = NoPrompt
    /\ tret = NoResult

\* the threads that call UI(...) in SpecNew
NewCallers == {"u1", "u2"}

\* the configurations UI(...) is called with in SpecNew:
\* <<name, subtitle, show_banner, use_gui, use_color, be_quiet>>
NewConfigs == {<<"demo", None, TRUE, FALSE, TRUE, FALSE>>,
               <<"test", "desc", FALSE, FALSE, TRUE, TRUE>>,
               <<"demo", None, TRUE, TRUE, TRUE, FALSE>>}

\* a thread that is not inside UI(...), start() or a blocking call
ThreadIdle == [pc |-> "idle", cfg |-> <<"demo", None, TRUE, FALSE, TRUE, FALSE>>,
               obj |-> NoInstance, rets |-> <<>>]

StarterIdle == [pc |-> "init", item |-> Banner]

MainIdle == [pc |-> "idle", op |-> "none", where |-> "none"]

\* the threads of SpecNew, SpecStarts and SpecOwn, at rest
MoreIdle ==
    /\ uthr = [u \in NewCallers |-> ThreadIdle]
    /\ m2 = StarterIdle
    /\ gmain = MainIdle

\* the threads of SpecConc, at rest
ConcIdle ==
    /\ ppc = [p \in Producers |-> "call"]
    /\ pn = [p \in Producers |-> 0]
    /\ pm = [p \in Producers |-> Banner]
    /\ mpc = "init"
    /\ mitem = Banner
    /\ handed = {}

Init ==
    /\ instance = NoInstance
    /\ nobjs = 0
    /\ started = FALSE
    /\ queue = <<>>
    /\ rendered = <<>>
    /\ calls = <<>>
    /\ last = [op |-> "none", err |-> "", ret |-> 0, force |-> "absent",
             fmt |-> NoFormat]
    /\ ConcIdle
    /\ GuiAbsent
    /\ PromptIdle(FALSE)
    /\ MoreIdle

Next ==
    \/ \E t \in Titles, sb \in BOOLEAN, ug \in BOOLEAN, uc \in BOOLEAN,
          q \in BOOLEAN : UINew(t[1], t[2], sb, ug, uc, q)
    \/ \E fn \in FacadeFns, force \in ForceVals : FacadeUninit(fn, force)
    \/ \E fn \in MessageFns, force \in ForceVals, fc \in FormatCases :
          FacadeMessage(fn, force, fc)
    \/ \E fn \in {"inform", "warn"}, force \in ForceVals, fc \in FormatCases :
          FacadeMessageGui(fn, force, fc)
    \/ CliStart
    \/ CliStop

Spec == Init /\ [][Next]_vars

(***************************************************************************)
(* SpecConc: the terminal backend, constructed, with producer threads that *)
(* call its message methods while another thread calls start().  Each step *)
(* is one access to the shared _started flag, queue or console.            *)
(***************************************************************************)
seqVars == <<instance, nobjs, calls, last, guiVars, promptVars, moreVars>>

\* a producer enters inform/alert: the quiet test of inform, then the read
\* of self._started in _print_or_queue
ProdCall(p, fn, force) ==
    /\ ppc[p] = "call"
    /\ pn[p] < MaxProdCalls
    /\ fn = "inform" \/ force = "absent"
    /\ pn' = [pn EXCEPT ![p] = @ + 1]
    /\ LET m == [src |-> p, id |-> pn[p] + 1, style |-> StyleOf(fn)]
       IN IF MethodShows(fn, force, instance.be_quiet)
          THEN /\ pm' = [pm EXCEPT ![p] = m]
               /\ handed' = handed \cup {m}
               /\ ppc' = [ppc EXCEPT ![p] = IF started THEN "print" ELSE "put"]
          ELSE UNCHANGED <<pm, handed, ppc>>
    /\ UNCHANGED <<started, queue, rendered, mpc, mitem, seqVars>>

\* _print_or_queue, else branch: self._queue.put((text, style))
ProdPut(p) ==
    /\ ppc[p] = "put"
    /\ queue' = QueuePut(queue, pm[p])
    /\ ppc' = [ppc EXCEPT ![p] = "call"]
    /\ UNCHANGED <<started, rendered, pn, pm, mpc, mitem, handed, seqVars>>

\* _print_or_queue, then branch: self._console.print(text, ...)
ProdPrint(p) ==
    /\ ppc[p] = "print"
    /\ rendered' = Append(rendered, pm[p])
    /\ ppc' = [ppc EXCEPT ![p] = "call"]
    /\ UNCHANGED <<started, queue, pn, pm, mpc, mitem, handed, seqVars>>

\* start() is called
StartEnter ==
    /\ mpc = "init"
    /\ mpc' = "test"
    /\ UNCHANGED <<started, queue, rendered, ppc, pn, pm, mitem, handed, seqVars>>

\* start(): while not self._queue.empty()
StartTest ==
    /\ mpc = "test"
    /\ mpc' = IF queue = <<>> THEN "set" ELSE "get"
    /\ UNCHANGED <<started, queue, rendered, ppc, pn, pm, mitem, handed, seqVars>>

\* start(): (text, style) = self._queue.get(), which waits for an entry
StartGet ==
    /\ mpc = "get"
    /\ queue # <<>>
    /\ mitem' = Head(queue)
    /\ queue' = Tail(queue)
    /\ mpc' = "print"
    /\ UNCHANGED <<started, rendered, ppc, pn, pm, handed, seqVars>>

\* start(): self._console.print(text, ...)
StartPrint ==
    /\ mpc = "print"
    /\ rendered' = Append(rendered, mitem)
    /\ mpc' = "test"
    /\ UNCHANGED <<started, queue, ppc, pn, pm, mitem, handed, seqVars>>

\* start(): self._started = True, and return
StartSet ==
    /\ mpc = "set"
    /\ started' = TRUE
    /\ mpc' = "returned"
    /\ UNCHANGED <<queue, rendered, ppc, pn, pm, mitem, handed, seqVars>>

\* the CLI object as CLI.__init__ leaves it, for each banner and quiet setting
InitConc ==
    /\ \E sb \in BOOLEAN, q \in BOOLEAN :
          /\ instance = WithConfig([NoInstance EXCEPT !.kind = "CLI", !.id = 1],
                                   "demo", "desc", sb, FALSE, TRUE, q)
          /\ queue = IF QueuesBanner(sb, q) THEN QueuePut(<<>>, Banner) ELSE <<>>
    /\ nobjs = 1
    /\ started = FALSE
    /\ rendered = <<>>
    /\ calls = <<>>
    /\ last = [op |-> "UI", err |-> "", ret |-> 1, force |-> "absent",
             fmt |-> NoFormat]
    /\ ConcIdle
    /\ GuiAbsent
    /\ PromptIdle(FALSE)
    /\ MoreIdle

NextConc ==
    \/ \E p \in Producers, fn \in ProducerFns, force \in {"absent", "true"} :
          ProdCall(p, fn, force)
    \/ \E p \in Producers : ProdPut(p)
    \/ \E p \in Producers : ProdPrint(p)
    \/ StartEnter
    \/ StartTest
    \/ StartGet
    \/ StartPrint
    \/ StartSet

SpecConc == InitConc /\ [][NextConc]_vars

(***************************************************************************)
(* SpecGUI: the windowed backend of bun/gui.py, constructed.  Caller       *)
(* threads call its methods; wx.CallAfter posts to the event loop, which   *)
(* runs the posted calls one at a time, also while a modal dialog is       *)
(* shown (ShowModal runs the loop nested); the user acts on the dialog on  *)
(* top.                                                                    *)
(***************************************************************************)
nonGuiVars == <<instance, nobjs, started, queue, rendered, calls, last, concVars,
                promptVars, moreVars>>

\* Python's truth value of a string or None: "if self._user:"
Truthy(s) == s # None /\ s # ""

\* str.strip() on the strings of the model
Strip(s) == IF s = " " THEN "" ELSE s

\* mutant: the completion token is not put
PutToken_Dropped(q) == q

\* mutant: the completion token is put twice
PutToken_Twice(q) == q + 2

\* self._queue.put(True)
PutToken(q) == q + 1

\* a dialog of the given kind, shown for request n of caller c
Dialog(kind, c, n, a, b) == [NoDialog EXCEPT !.kind = kind, !.c = c, !.n = n,
                                             !.a = a, !.b = b]

\* the defaults login_details is called with: (user, password)
LoginDefaults == {<<None, None>>, <<"alice", None>>, <<"alice", "pw">>}

\* what the user leaves in the login and password fields
TypedPairs == {<<"", "">>, <<"bob", " ">>, <<"bob", "secret">>}

\* k copies of r
Copies(r, k) == [i \in 1..k |-> r]

\* a caller may begin a call
CanCall(c) == cpc[c] = "idle" /\ gcalls < MaxGuiCalls

\* bookkeeping of a call that begins: the call, its number, a fresh history
Begin(c, op) ==
    /\ cop' = [cop EXCEPT ![c] = op]
    /\ cn' = [cn EXCEPT ![c] = @ + 1]
    /\ gcalls' = gcalls + 1
    /\ pushed' = [pushed EXCEPT ![c] = Append(@, 0)]

\* GUI.inform (prefix "") and GUI.warn (prefix "Warning: "): text.format(*args)
\* in the caller, which may raise; then post, return
CallInform(c, prefix, fc) ==
    /\ CanCall(c)
    /\ Begin(c, IF prefix = "" THEN "inform" ELSE "warn")
    /\ IF Format(fc[1], fc[2]) = ""
       THEN /\ evq' = Post(evq, Task("info_message", c, cn[c] + 1, prefix, ""))
            /\ cret' = [cret EXCEPT ![c] = NoReturn]
       ELSE /\ evq' = evq
            /\ cret' = [cret EXCEPT ![c] =
                           [NoReturn EXCEPT !.kind = "raise",
                                            !.val = Format(fc[1], fc[2])]]
    /\ UNCHANGED <<loop, frameAlive, modal, sharedQ, response, chan, textArea,
                   cpc, cdlg, nquit, stops, fatalAcked, answered, nonGuiVars>>

\* GUI.confirm: post _ask_yes_no, then _wait
CallConfirm(c) ==
    /\ CanCall(c)
    /\ Begin(c, "confirm")
    /\ evq' = Post(evq, Task("ask_yes_no", c, cn[c] + 1, "", ""))
    /\ cpc' = [cpc EXCEPT ![c] = "wait_shared"]
    /\ UNCHANGED <<loop, frameAlive, modal, sharedQ, response, chan, textArea,
                   cret, cdlg, nquit, stops, fatalAcked, answered, nonGuiVars>>

\* GUI.login_details: a new Queue, post "login_dialog", then results.get()
CallLogin(c, user, password) ==
    /\ CanCall(c)
    /\ Begin(c, "login_details")
    /\ chan' = [chan EXCEPT ![c] = <<>>]
    /\ evq' = Post(evq, Task("login_dialog", c, cn[c] + 1, user, password))
    /\ cpc' = [cpc EXCEPT ![c] = "wait_chan"]
    /\ UNCHANGED <<loop, frameAlive, modal, sharedQ, response, textArea,
                   cret, cdlg, nquit, stops, fatalAcked, answered, nonGuiVars>>

\* GUI.file_selection: a new Queue, post "open_file" or "save_file", then get()
CallFile(c, type) ==
    /\ CanCall(c)
    /\ Begin(c, "file_selection")
    /\ chan' = [chan EXCEPT ![c] = <<>>]
    /\ evq' = Post(evq, Task(IF type = "open" THEN "open_file" ELSE "save_file",
                             c, cn[c] + 1, "", ""))
    /\ cpc' = [cpc EXCEPT ![c] = "wait_chan"]
    /\ UNCHANGED <<loop, frameAlive, modal, sharedQ, response, textArea,
                   cret, cdlg, nquit, stops, fatalAcked, answered, nonGuiVars>>

\* mutant: the app always has a top window
HasTopWindow_Always == TRUE

\* wx.GetApp().TopWindow: the main frame, or else a frame that a caller's own
\* _show_alert_dialog built with _current_frame and has not destroyed
HasTopWindow == frameAlive \/ \E c \in Callers : cdlg[c].kind # "none"

\* GUI.alert and GUI.alert_fatal up to _wait: with a top window the dialog is
\* posted to the loop, without one the caller builds and shows it itself
CallAlert(c, fn, details) ==
    /\ CanCall(c)
    /\ Begin(c, fn)
    /\ LET sev == IF fn = "alert_fatal" THEN "fatal" ELSE "error"
       IN IF HasTopWindow
          THEN /\ evq' = Post(evq, Task("alert_dialog", c, cn[c] + 1, sev, details))
               /\ cpc' = [cpc EXCEPT ![c] = "wait_shared"]
               /\ UNCHANGED cdlg
          ELSE /\ cdlg' = [cdlg EXCEPT ![c] =
                              Dialog("alert", c, cn[c] + 1, sev, details)]
               /\ cpc' = [cpc EXCEPT ![c] = "sync_dialog"]
               /\ UNCHANGED evq
    /\ UNCHANGED <<loop, frameAlive, modal, sharedQ, response, chan, textArea,
                   cret, nquit, stops, fatalAcked, answered, nonGuiVars>>

\* GUI.stop: wx.CallAfter(self._frame.Destroy)
CallStop(c) ==
    /\ CanCall(c)
    /\ Begin(c, "stop")
    /\ evq' = Post(evq, Task("destroy", c, cn[c] + 1, "", ""))
    /\ UNCHANGED <<loop, frameAlive, modal, sharedQ, response, chan, textArea,
                   cpc, cret, cdlg, nquit, stops, fatalAcked, answered, nonGuiVars>>

\* GUI._wait: self._queue.get() takes one entry of the shared queue
WaitShared(c) ==
    /\ cpc[c] = "wait_shared"
    /\ sharedQ > 0
    /\ sharedQ' = sharedQ - 1
    /\ cpc' = [cpc EXCEPT ![c] = CASE cop[c] = "confirm"     -> "read_response"
                                   [] cop[c] = "alert_fatal" -> "post_stop"
                                   [] OTHER                  -> "idle"]
    /\ UNCHANGED <<loop, frameAlive, evq, modal, response, chan, textArea, cop,
                   cn, cret, cdlg, gcalls, nquit, pushed, stops, fatalAcked,
                   answered, nonGuiVars>>

\* GUI.confirm: return self._response
ReadResponse(c) ==
    /\ cpc[c] = "read_response"
    /\ cret' = [cret EXCEPT ![c] = [NoReturn EXCEPT !.kind = "bool",
                                                    !.val = response]]
    /\ cpc' = [cpc EXCEPT ![c] = "idle"]
    /\ UNCHANGED <<loop, frameAlive, evq, modal, sharedQ, response, chan,
                   textArea, cop, cn, cdlg, gcalls, nquit, pushed, stops,
                   fatalAcked, answered, nonGuiVars>>

\* GUI.alert_fatal after _wait: wx.CallAfter(pub.sendMessage, 'stop')
PostStop(c) ==
    /\ cpc[c] = "post_stop"
    /\ evq' = Post(evq, StopTask)
    /\ cpc' = [cpc EXCEPT ![c] = "idle"]
    /\ UNCHANGED <<loop, frameAlive, modal, sharedQ, response, chan, textArea,
                   cop, cn, cret, cdlg, gcalls, nquit, pushed, stops,
                   fatalAcked, answered, nonGuiVars>>

\* results.get() / return_queue.get(): take the first result of the request
WaitChan(c) ==
    /\ cpc[c] = "wait_chan"
    /\ chan[c] # <<>>
    /\ cret' = [cret EXCEPT ![c] = Head(chan[c])]
    /\ chan' = [chan EXCEPT ![c] = Tail(@)]
    /\ cpc' = [cpc EXCEPT ![c] = "idle"]
    /\ UNCHANGED <<loop, frameAlive, evq, modal, sharedQ, response, textArea,
                   cop, cn, cdlg, gcalls, nquit, pushed, stops, fatalAcked,
                   answered, nonGuiVars>>

\* GUI.start: self._app.MainLoop()
GuiStart ==
    /\ loop = "idle"
    /\ loop' = "running"
    /\ UNCHANGED <<frameAlive, evq, modal, sharedQ, response, chan, textArea,
                   cpc, cop, cn, cret, cdlg, gcalls, nquit, pushed, stops,
                   fatalAcked, answered, nonGuiVars>>

\* the loop can run the oldest posted call
LoopCanRun(task) == loop = "running" /\ evq # <<>> /\ Head(evq).task = task

\* the dialog on top, the only one the user can act on
Top == modal[Len(modal)]

Beneath == SubSeq(modal, 1, Len(modal) - 1)

UserCanActOn(kind) == loop = "running" /\ modal # <<>> /\ Top.kind = kind

\* Queue.put of k copies of r on the Queue of request n of caller c; the
\* caller's variable holds that Queue only while n is its current request
ChanPut(ch, c, n, r, k) ==
    [ch EXCEPT ![c] = IF n = cn[c] THEN @ \o Copies(r, k) ELSE @]

PushedPut(pu, c, n, k) == [pu EXCEPT ![c][n] = @ + k]

\* AppFrame.info_message, run by pub.sendMessage("info_message")
ProcInfo ==
    /\ LoopCanRun("info_message")
    /\ textArea' = Append(textArea, [c |-> Head(evq).c, n |-> Head(evq).n,
                                     prefix |-> Head(evq).a])
    /\ evq' = Tail(evq)
    /\ UNCHANGED <<loop, frameAlive, modal, sharedQ, response, chan, cpc, cop,
                   cn, cret, cdlg, gcalls, nquit, pushed, stops, fatalAcked,
                   answered, nonGuiVars>>

\* GUI._ask_yes_no up to dlg.ShowModal()
ProcAskYesNo ==
    /\ LoopCanRun("ask_yes_no")
    /\ modal' = Append(modal, Dialog("yesno", Head(evq).c, Head(evq).n, "", ""))
    /\ evq' = Tail(evq)
    /\ UNCHANGED <<loop, frameAlive, sharedQ, response, chan, textArea, cpc,
                   cop, cn, cret, cdlg, gcalls, nquit, pushed, stops,
                   fatalAcked, answered, nonGuiVars>>

\* GUI._show_alert_dialog up to dlg.ShowModal()
ProcAlert ==
    /\ LoopCanRun("alert_dialog")
    /\ modal' = Append(modal, Dialog("alert", Head(evq).c, Head(evq).n,
                                     Head(evq).a, Head(evq).b))
    /\ evq' = Tail(evq)
    /\ UNCHANGED <<loop, frameAlive, sharedQ, response, chan, textArea, cpc,
                   cop, cn, cret, cdlg, gcalls, nquit, pushed, stops,
                   fatalAcked, answered, nonGuiVars>>

\* AppFrame.login_dialog: LoginDialog(...), initialize_values, ShowWindowModal
ProcLogin ==
    /\ LoopCanRun("login_dialog")
    /\ LET t == Head(evq)
           d == [Dialog("login", t.c, t.n, "", "") EXCEPT
                    !.user = t.a, !.pswd = t.b,
                    !.login = IF Truthy(t.a) THEN t.a ELSE "",
                    !.password = IF Truthy(t.b) THEN t.b ELSE ""]
       IN modal' = Append(modal, d)
    /\ evq' = Tail(evq)
    /\ UNCHANGED <<loop, frameAlive, sharedQ, response, chan, textArea, cpc,
                   cop, cn, cret, cdlg, gcalls, nquit, pushed, stops,
                   fatalAcked, answered, nonGuiVars>>

\* AppFrame.open_file / save_file up to fd.ShowModal()
ProcFile ==
    /\ LoopCanRun("open_file") \/ LoopCanRun("save_file")
    /\ modal' = Append(modal, Dialog("file", Head(evq).c, Head(evq).n,
                                     Head(evq).task, ""))
    /\ evq' = Tail(evq)
    /\ UNCHANGED <<loop, frameAlive, sharedQ, response, chan, textArea, cpc,
                   cop, cn, cret, cdlg, gcalls, nquit, pushed, stops,
                   fatalAcked, answered, nonGuiVars>>

\* the topics AppFrame.__init__ subscribes a listener to
Subscribed == {"login_dialog", "info_message", "open_file", "save_file"}

\* pub.sendMessage('stop'): the topic has no listener, nothing runs
ProcStopMsg ==
    /\ LoopCanRun("stop")
    /\ "stop" \notin Subscribed
    /\ stops' = stops + 1
    /\ evq' = Tail(evq)
    /\ UNCHANGED <<loop, frameAlive, modal, sharedQ, response, chan, textArea, cpc, cop, cn,
                   cret, cdlg, gcalls, nquit, pushed, fatalAcked, answered, nonGuiVars>>

\* a dialog that its window's destruction ends as if cancelled: what the rest
\* of its handler does
EndedByTeardown(d, st) ==
    CASE d.kind = "yesno" ->
           [st EXCEPT !.response = "False", !.sharedQ = PutToken(@)]
      [] d.kind = "alert" ->
           [st EXCEPT !.sharedQ = PutToken(@)]
      [] d.kind = "help" ->
           [st EXCEPT !.sharedQ = PutToken(@),
                      !.evq = IF d.a = "fatal" THEN Post(@, StopTask) ELSE @]
      [] d.kind = "file" ->
           [st EXCEPT !.chan = ChanPut(@, d.c, d.n,
                                       [NoReturn EXCEPT !.kind = "path"], 1),
                      !.pushed = PushedPut(@, d.c, d.n, 1)]
      [] OTHER -> st

RECURSIVE TearDown(_, _)
TearDown(stack, st) ==
    IF stack = <<>> THEN st
    ELSE TearDown(SubSeq(stack, 1, Len(stack) - 1),
                  EndedByTeardown(stack[Len(stack)], st))

\* self._frame.Destroy, posted by GUI.stop: the frame and the dialogs that are
\* its descendants are destroyed without a close event and the loop exits.
\* What the handlers blocked in ShowModal then do is the toolkit's choice:
\* they are abandoned, or each runs on as if its dialog had been cancelled.
\* A login dialog has no handler waiting: nothing runs for it.
ProcDestroy ==
    /\ LoopCanRun("destroy")
    /\ frameAlive' = FALSE
    /\ loop' = "exited"
    /\ modal' = <<>>
    /\ \E how \in {"abandoned", "cancelled"} :
         LET st0 == [sharedQ |-> sharedQ, response |-> response, chan |-> chan,
                     pushed |-> pushed, evq |-> Tail(evq)]
             st  == IF how = "cancelled" THEN TearDown(modal, st0) ELSE st0
         IN /\ sharedQ' = st.sharedQ
            /\ response' = st.response
            /\ chan' = st.chan
            /\ pushed' = st.pushed
            /\ evq' = st.evq
    /\ UNCHANGED <<textArea, cpc, cop, cn, cret, cdlg, gcalls, nquit, stops,
                   fatalAcked, answered, nonGuiVars>>

\* GUI._ask_yes_no after ShowModal: the answer, then the token
UserYesNo(ans) ==
    /\ UserCanActOn("yesno")
    /\ modal' = Beneath
    /\ response' = ans
    /\ sharedQ' = PutToken(sharedQ)
    /\ answered' = [answered EXCEPT ![Top.c] = [n |-> Top.n, ans |-> ans]]
    /\ UNCHANGED <<loop, frameAlive, evq, chan, textArea, cpc, cop, cn, cret,
                   cdlg, gcalls, nquit, pushed, stops, fatalAcked, nonGuiVars>>

\* the buttons of the alert dialog: OK (fatal) or Yes/No, Help when there
\* are details, and closing it
AlertChoices(sev, details) ==
    (IF sev = "fatal" THEN {"ok"} ELSE {"yes", "no"})
      \cup (IF details # "" THEN {"help"} ELSE {})
      \cup {"close"}

\* mutant: Yes publishes 'stop' as No does
AlertStops_OnYes(sev, choice) ==
    CASE choice = "help"                -> sev = "fatal"
      [] choice \in {"yes", "no", "ok"} -> TRUE
      [] OTHER                          -> FALSE

\* _show_alert_dialog: the branches that publish 'stop'
AlertStops(sev, choice) ==
    CASE choice = "help"         -> sev = "fatal"
      [] choice \in {"no", "ok"} -> TRUE
      [] OTHER                   -> FALSE

\* GUI._show_alert_dialog after dlg.ShowModal(), other than Help
UserAlert(choice) ==
    /\ UserCanActOn("alert")
    /\ choice \in AlertChoices(Top.a, Top.b) \ {"help"}
    /\ modal' = Beneath
    /\ sharedQ' = PutToken(sharedQ)
    /\ evq' = IF AlertStops(Top.a, choice) THEN Post(evq, StopTask) ELSE evq
    /\ fatalAcked' = (fatalAcked \/ Top.a = "fatal")
    /\ UNCHANGED <<loop, frameAlive, response, chan, textArea, cpc, cop, cn,
                   cret, cdlg, gcalls, nquit, pushed, stops, answered, nonGuiVars>>

\* GUI._show_alert_dialog, clicked == wx.ID_HELP: the details are shown
UserAlertHelp ==
    /\ UserCanActOn("alert")
    /\ "help" \in AlertChoices(Top.a, Top.b)
    /\ modal' = Append(Beneath, [Top EXCEPT !.kind = "help"])
    /\ UNCHANGED <<loop, frameAlive, evq, sharedQ, response, chan, textArea,
                   cpc, cop, cn, cret, cdlg, gcalls, nquit, pushed, stops,
                   fatalAcked, answered, nonGuiVars>>

\* GUI._show_alert_dialog after info.ShowModal()
UserHelpClose ==
    /\ UserCanActOn("help")
    /\ modal' = Beneath
    /\ sharedQ' = PutToken(sharedQ)
    /\ evq' = IF AlertStops(Top.a, "help") THEN Post(evq, StopTask) ELSE evq
    /\ fatalAcked' = (fatalAcked \/ Top.a = "fatal")
    /\ UNCHANGED <<loop, frameAlive, response, chan, textArea, cpc, cop, cn,
                   cret, cdlg, gcalls, nquit, pushed, stops, answered, nonGuiVars>>

\* AppFrame.open_file / save_file after fd.ShowModal()
UserFile(choice) ==
    /\ UserCanActOn("file")
    /\ modal' = Beneath
    /\ LET r == [NoReturn EXCEPT !.kind = "path",
                                 !.val = IF choice = "cancel" THEN None
                                         ELSE "/a/file"]
       IN chan' = ChanPut(chan, Top.c, Top.n, r, 1)
    /\ pushed' = PushedPut(pushed, Top.c, Top.n, 1)
    /\ UNCHANGED <<loop, frameAlive, evq, sharedQ, response, textArea, cpc,
                   cop, cn, cret, cdlg, gcalls, nquit, stops, fatalAcked,
                   answered, nonGuiVars>>

\* mutant: return_values puts what the fields hold
ReturnValues_Typed(st, d) ==
    [chan |-> ChanPut(st.chan, d.c, d.n,
                      [NoReturn EXCEPT !.kind = "login", !.user = d.login,
                                       !.pswd = d.password, !.cancelled = d.cancel],
                      1),
     pushed |-> PushedPut(st.pushed, d.c, d.n, 1)]

\* LoginDialog.return_values: one put of (_user, _password, _cancel)
ReturnValues(st, d) ==
    [chan |-> ChanPut(st.chan, d.c, d.n,
                      [NoReturn EXCEPT !.kind = "login", !.user = d.user,
                                       !.pswd = d.pswd, !.cancelled = d.cancel],
                      1),
     pushed |-> PushedPut(st.pushed, d.c, d.n, 1)]

\* LoginDialog.on_text: the OK button is enabled while both fields hold text
OkEnabled(d) == d.login # "" /\ d.password # ""

\* LoginDialog.inputs_nonempty
InputsNonempty(d) == Strip(d.login) # "" /\ Strip(d.password) # ""

\* the user edits the fields of the login dialog
UserLoginType(l, p) ==
    /\ UserCanActOn("login")
    /\ <<Top.login, Top.password>> # <<l, p>>
    /\ modal' = Append(Beneath, [Top EXCEPT !.login = l, !.password = p])
    /\ UNCHANGED <<loop, frameAlive, evq, sharedQ, response, chan, textArea,
                   cpc, cop, cn, cret, cdlg, gcalls, nquit, pushed, stops,
                   fatalAcked, answered, nonGuiVars>>

\* LoginDialog.on_ok: with complete inputs the values are stored,
\* return_values is called twice and the dialog ends; otherwise
\* complain_incomplete_values shows its question
UserLoginOk ==
    /\ UserCanActOn("login")
    /\ OkEnabled(Top)
    /\ InputsNonempty(Top) \/ pushed[Top.c][Top.n] < MaxComplaints
    /\ IF InputsNonempty(Top)
       THEN LET d  == [Top EXCEPT !.cancel = FALSE, !.user = Top.login,
                                  !.pswd = Top.password]
                st == ReturnValues(ReturnValues([chan |-> chan,
                                                 pushed |-> pushed], d), d)
            IN /\ chan' = st.chan
               /\ pushed' = st.pushed
               /\ modal' = Beneath
       ELSE /\ modal' = Append(modal, Dialog("complain", Top.c, Top.n, "", ""))
            /\ UNCHANGED <<chan, pushed>>
    /\ UNCHANGED <<loop, frameAlive, evq, sharedQ, response, textArea, cpc,
                   cop, cn, cret, cdlg, gcalls, nquit, stops, fatalAcked,
                   answered, nonGuiVars>>

\* LoginDialog.on_cancel_or_quit (Cancel, close, Escape): _cancel is set,
\* return_values is called twice and the dialog ends
UserLoginCancel ==
    /\ UserCanActOn("login")
    /\ LET d  == [Top EXCEPT !.cancel = TRUE]
           st == ReturnValues(ReturnValues([chan |-> chan, pushed |-> pushed],
                                           d), d)
       IN /\ chan' = st.chan
          /\ pushed' = st.pushed
    /\ modal' = Beneath
    /\ UNCHANGED <<loop, frameAlive, evq, sharedQ, response, textArea, cpc,
                   cop, cn, cret, cdlg, gcalls, nquit, stops, fatalAcked,
                   answered, nonGuiVars>>

\* LoginDialog.complain_incomplete_values after dialog.ShowModal(): on Yes
\* _cancel is set and return_values is called once; the login dialog, the
\* one beneath, stays open either way
UserComplain(ans) ==
    /\ UserCanActOn("complain")
    /\ LET login == Beneath[Len(Beneath)]
           d     == [login EXCEPT !.cancel = TRUE]
           st    == ReturnValues([chan |-> chan, pushed |-> pushed], d)
       IN IF ans = "yes"
          THEN /\ modal' = Append(SubSeq(Beneath, 1, Len(Beneath) - 1), d)
               /\ chan' = st.chan
               /\ pushed' = st.pushed
          ELSE /\ modal' = Beneath
               /\ UNCHANGED <<chan, pushed>>
    /\ UNCHANGED <<loop, frameAlive, evq, sharedQ, response, textArea, cpc,
                   cop, cn, cret, cdlg, gcalls, nquit, stops, fatalAcked,
                   answered, nonGuiVars>>

\* AppFrame.on_cancel_or_quit (Quit button, Exit menu, closing the window):
\* a line in the text area, and a thread that posts the 'stop' message
UserQuitMain ==
    /\ loop = "running" /\ frameAlive /\ modal = <<>>
    /\ nquit < MaxQuits
    /\ nquit' = nquit + 1
    /\ textArea' = Append(textArea, [c |-> "", n |-> 0, prefix |-> "Stopping"])
    /\ evq' = Post(evq, StopTask)
    /\ UNCHANGED <<loop, frameAlive, modal, sharedQ, response, chan, cpc, cop,
                   cn, cret, cdlg, gcalls, pushed, stops, fatalAcked,
                   answered, nonGuiVars>>

\* GUI._show_alert_dialog run by the caller itself (alert without a top
\* window): the user's answer to the dialog the caller shows.  The last
\* branch (Yes, or the dialog closed) leaves the frame it built undestroyed.
UserSyncAlert(c, choice) ==
    /\ cpc[c] = "sync_dialog"
    /\ LET d == cdlg[c]
       IN /\ choice \in IF d.kind = "help" THEN {"help"}
                         ELSE AlertChoices(d.a, d.b)
          /\ IF d.kind = "alert" /\ choice = "help"
             THEN /\ cdlg' = [cdlg EXCEPT ![c] = [d EXCEPT !.kind = "help"]]
                  /\ UNCHANGED <<sharedQ, evq, cpc, fatalAcked>>
             ELSE /\ cdlg' = [cdlg EXCEPT ![c] =
                                 IF d.kind = "alert" /\ ~AlertStops(d.a, choice)
                                 THEN [NoDialog EXCEPT !.kind = "frame"]
                                 ELSE NoDialog]
                  /\ sharedQ' = PutToken(sharedQ)
                  /\ evq' = IF AlertStops(d.a, choice) THEN Post(evq, StopTask)
                            ELSE evq
                  /\ cpc' = [cpc EXCEPT ![c] = "wait_shared"]
                  /\ fatalAcked' = (fatalAcked \/ d.a = "fatal")
    /\ UNCHANGED <<loop, frameAlive, modal, response, chan, textArea, cop, cn,
                   cret, gcalls, nquit, pushed, stops, answered, nonGuiVars>>

\* the GUI object as GUI.__init__ leaves it
InitGUI ==
    /\ instance = WithConfig([NoInstance EXCEPT !.kind = "GUI", !.id = 1],
                             "demo", "desc", TRUE, TRUE, TRUE, FALSE)
    /\ nobjs = 1
    /\ started = FALSE
    /\ queue = <<>>
    /\ rendered = <<>>
    /\ calls = <<>>
    /\ last = [op |-> "UI", err |-> "", ret |-> 1, force |-> "absent",
             fmt |-> NoFormat]
    /\ ConcIdle
    /\ GuiAtRest(TRUE)
    /\ PromptIdle(FALSE)
    /\ MoreIdle

\* the steps of the caller threads after the call has begun
CallerStep(c) ==
    \/ WaitShared(c)
    \/ ReadResponse(c)
    \/ PostStop(c)
    \/ WaitChan(c)

\* the calls of the caller threads, GUI.stop apart
CallerCall(c) ==
    \/ \E prefix \in {"", "Warning: "}, fc \in FormatCases :
          CallInform(c, prefix, fc)
    \/ CallConfirm(c)
    \/ \E d \in LoginDefaults : CallLogin(c, d[1], d[2])
    \/ \E type \in {"open", "save"} : CallFile(c, type)
    \/ \E fn \in {"alert", "alert_fatal"}, details \in {"", "details"} :
          CallAlert(c, fn, details)

\* the loop runs the oldest posted call, the frame's destruction apart
LoopStep ==
    \/ ProcInfo
    \/ ProcAskYesNo
    \/ ProcAlert
    \/ ProcLogin
    \/ ProcFile
    \/ ProcStopMsg

\* the user dismisses the dialog on top
UserDismiss ==
    \/ \E ans \in {"True", "False"} : UserYesNo(ans)
    \/ \E choice \in {"ok", "yes", "no", "close"} : UserAlert(choice)
    \/ UserAlertHelp
    \/ UserHelpClose
    \/ \E choice \in {"path", "cancel"} : UserFile(choice)
    \/ \E ans \in {"yes", "no"} : UserComplain(ans)
    \/ UserLoginCancel

\* the user's other acts
UserOther ==
    \/ \E t \in TypedPairs : UserLoginType(t[1], t[2])
    \/ UserLoginOk
    \/ UserQuitMain

NextGUI ==
    \/ GuiStart
    \/ \E c \in Callers : CallerCall(c)
    \/ \E c \in Callers : CallStop(c)
    \/ \E c \in Callers : CallerStep(c)
    \/ LoopStep
    \/ ProcDestroy
    \/ UserDismiss
    \/ UserOther
    \/ \E c \in Callers, choice \in {"ok", "yes", "no", "help", "close"} :
          UserSyncAlert(c, choice)

SpecGUI == InitGUI /\ [][NextGUI]_vars

(***************************************************************************)
(* SpecRun: the windowed backend while the frame lives: no thread calls    *)
(* stop().  The loop keeps running the posted calls, the threads keep      *)
(* running, and the user in the end dismisses the dialog on top, the login *)
(* dialog too however often it complains.                                  *)
(***************************************************************************)
NextRun ==
    \/ GuiStart
    \/ \E c \in Callers : CallerCall(c)
    \/ \E c \in Callers : CallerStep(c)
    \/ LoopStep
    \/ UserDismiss
    \/ UserOther

FairRun ==
    /\ WF_vars(GuiStart)
    /\ WF_vars(LoopStep)
    /\ \A c \in Callers : WF_vars(CallerStep(c))
    /\ WF_vars(UserDismiss)
    /\ SF_vars(UserLoginCancel)

SpecRun == InitGUI /\ [][NextRun]_vars /\ FairRun

(***************************************************************************)
(* SpecPrompt: the prompts of the terminal backend, one caller.  A prompt  *)
(* call blocks in input() or _password(); what arrives on the input stream *)
(* is a line, the end of the stream, or an interrupt.  A str is modelled   *)
(* as the sequence of its characters.                                      *)
(***************************************************************************)
nonPromptVars == <<instance, nobjs, started, queue, rendered, calls, last,
                   concVars, guiVars, moreVars>>

\* the user and pswd arguments login_details is called with
UserDefaults == {NoStr, <<>>, <<"a", "l", "i", "c", "e">>}

PswdDefaults == {NoStr, <<>>, <<"p", "w">>}

\* the lines the user types, without the newline
Lines == {<<>>, <<"b", "o", "b">>, <<"y">>, <<"Y", "e", "s">>, <<"n", "o">>,
          <<" ">>, <<"s", " ">>}

\* what arrives at a blocked read: a line, end of stream, Ctrl-C
Events == {"line", "eof", "int"}

\* str.rstrip(): the trailing whitespace removed
RECURSIVE Rstrip(_)
Rstrip(s) ==
    IF s # <<>> /\ s[Len(s)] = " " THEN Rstrip(SubSeq(s, 1, Len(s) - 1)) ELSE s

\* str.startswith(('y', 'Y'))
StartsWithY(s) == s # <<>> /\ s[1] \in {"y", "Y"}

\* input(): the line, or EOFError at the end of the stream, or KeyboardInterrupt
Input(ev, line) ==
    CASE ev = "line" -> [err |-> "", text |-> line]
      [] ev = "eof"  -> [err |-> "EOFError", text |-> <<>>]
      [] ev = "int"  -> [err |-> "KeyboardInterrupt", text |-> <<>>]

\* _password(prompt): getpass.getpass on a tty, else
\* sys.stdin.readline().rstrip(), which reads '' at the end of the stream
Password(isatty, ev, line) ==
    IF isatty THEN Input(ev, line)
    ELSE CASE ev = "line" -> [err |-> "", text |-> Rstrip(line)]
           [] ev = "eof"  -> [err |-> "", text |-> <<>>]
           [] ev = "int"  -> [err |-> "KeyboardInterrupt", text |-> <<>>]

\* an exception that leaves the call
Raise(err) == [NoResult EXCEPT !.kind = "raise", !.err = err]

\* CLI.login_details, "except KeyboardInterrupt: return user, pswd, True";
\* any other exception leaves the call
LoginExcept(err, user, pswd) ==
    IF err = "KeyboardInterrupt"
    THEN [NoResult EXCEPT !.kind = "login", !.user = user, !.pswd = pswd,
                          !.cancelled = TRUE]
    ELSE Raise(err)

\* mutant: an empty input is kept, the default is not taken
OrDefault_KeepsInput(input, default) == input

\* "if len(input_user) == 0: input_user = user"
OrDefault(input, default) == IF Len(input) = 0 THEN default ELSE input

\* mutant: None is returned as it is
Final_KeepsNone(input) == input

\* "final_user = '' if input_user is None else input_user"
Final(input) == IF input = NoStr THEN <<>> ELSE input

\* CLI.confirm is called: input(...) blocks
TermConfirm ==
    /\ tpc = "idle"
    /\ tpc' = "confirm_input"
    /\ tcall' = [NoPrompt EXCEPT !.op = "confirm"]
    /\ tret' = NoResult
    /\ UNCHANGED <<tty, nonPromptVars>>

\* CLI.confirm: input(...).startswith(('y', 'Y')), no exception handled
TermConfirmInput(ev, line) ==
    /\ tpc = "confirm_input"
    /\ LET in == Input(ev, line)
       IN tret' = IF in.err # "" THEN Raise(in.err)
                  ELSE [NoResult EXCEPT !.kind = "bool",
                                        !.yes = StartsWithY(in.text)]
    /\ tcall' = [tcall EXCEPT !.evUser = ev, !.typedUser = Input(ev, line).text]
    /\ tpc' = "idle"
    /\ UNCHANGED <<tty, nonPromptVars>>

\* CLI.file_selection is called: input(...) blocks
TermFile ==
    /\ tpc = "idle"
    /\ tpc' = "file_input"
    /\ tcall' = [NoPrompt EXCEPT !.op = "file_selection"]
    /\ tret' = NoResult
    /\ UNCHANGED <<tty, nonPromptVars>>

\* CLI.file_selection: return input(...), no exception handled
TermFileInput(ev, line) ==
    /\ tpc = "file_input"
    /\ LET in == Input(ev, line)
       IN tret' = IF in.err # "" THEN Raise(in.err)
                  ELSE [NoResult EXCEPT !.kind = "path", !.path = in.text]
    /\ tcall' = [tcall EXCEPT !.evUser = ev, !.typedUser = Input(ev, line).text]
    /\ tpc' = "idle"
    /\ UNCHANGED <<tty, nonPromptVars>>

\* CLI.login_details(prompt, user, pswd) is called: input(text) blocks
TermLogin(user, pswd) ==
    /\ tpc = "idle"
    /\ tpc' = "user_input"
    /\ tcall' = [NoPrompt EXCEPT !.op = "login_details", !.user = user,
                                 !.pswd = pswd]
    /\ tret' = NoResult
    /\ UNCHANGED <<tty, nonPromptVars>>

\* CLI.login_details: input_user = input(text), the default for an empty
\* line; then _password(text) blocks
TermUserInput(ev, line) ==
    /\ tpc = "user_input"
    /\ LET in == Input(ev, line)
       IN /\ tcall' = [tcall EXCEPT !.evUser = ev, !.typedUser = in.text,
                                    !.input_user =
                                       IF in.err = "" THEN OrDefault(in.text, tcall.user)
                                       ELSE NoStr]
          /\ IF in.err = ""
             THEN tpc' = "pswd_input" /\ UNCHANGED tret
             ELSE /\ tpc' = "idle"
                  /\ tret' = LoginExcept(in.err, tcall.user, tcall.pswd)
    /\ UNCHANGED <<tty, nonPromptVars>>

\* CLI.login_details: input_pswd = _password(text), the default for an empty
\* one; return final_user, final_pswd, False
TermPswdInput(ev, line) ==
    /\ tpc = "pswd_input"
    /\ LET in == Password(tty, ev, line)
       IN /\ tcall' = [tcall EXCEPT !.evPswd = ev,
                                    !.typedPswd = IF ev = "line" THEN line ELSE <<>>]
          /\ tret' = IF in.err # ""
                     THEN LoginExcept(in.err, tcall.user, tcall.pswd)
                     ELSE [NoResult EXCEPT
                              !.kind = "login",
                              !.user = Final(tcall.input_user),
                              !.pswd = Final(OrDefault(in.text, tcall.pswd)),
                              !.cancelled = FALSE]
    /\ tpc' = "idle"
    /\ UNCHANGED <<tty, nonPromptVars>>

\* the terminal backend, constructed; stdin is a terminal or is not
InitPrompt ==
    /\ instance = WithConfig([NoInstance EXCEPT !.kind = "CLI", !.id = 1],
                             "demo", "desc", FALSE, FALSE, TRUE, FALSE)
    /\ nobjs = 1
    /\ started = FALSE
    /\ queue = <<>>
    /\ rendered = <<>>
    /\ calls = <<>>
    /\ last = [op |-> "UI", err |-> "", ret |-> 1, force |-> "absent",
             fmt |-> NoFormat]
    /\ ConcIdle
    /\ GuiAbsent
    /\ \E isatty \in BOOLEAN : PromptIdle(isatty)
    /\ MoreIdle

NextPrompt ==
    \/ TermConfirm
    \/ \E ev \in Events, line \in Lines : TermConfirmInput(ev, line)
    \/ TermFile
    \/ \E ev \in Events, line \in Lines : TermFileInput(ev, line)
    \/ \E user \in UserDefaults, pswd \in PswdDefaults : TermLogin(user, pswd)
    \/ \E ev \in Events, line \in Lines : TermUserInput(ev, line)
    \/ \E ev \in Events, line \in Lines : TermPswdInput(ev, line)

SpecPrompt == InitPrompt /\ [][NextPrompt]_vars

(***************************************************************************)
(* SpecNew: threads that call UI(...) while no instance exists yet.  Each  *)
(* step is one access to UI.__instance or the construction of a backend.   *)
(***************************************************************************)
\* UI.__new__ is entered: "if cls.__instance is None"
NewTest(u, cfg) ==
    /\ uthr[u].pc = "idle"
    /\ Len(uthr[u].rets) < MaxNewCalls
    /\ uthr' = [uthr EXCEPT ![u].cfg = cfg,
                            ![u].pc = IF NeedsConstruct(instance) THEN "construct"
                                      ELSE "return"]
    /\ UNCHANGED <<instance, nobjs, started, queue, rendered, calls, last,
                   concVars, guiVars, promptVars, m2, gmain>>

\* UI.__new__: obj(name, subtitle, show_banner, use_gui, use_color, be_quiet)
NewConstruct(u) ==
    /\ uthr[u].pc = "construct"
    /\ LET cfg == uthr[u].cfg
       IN uthr' = [uthr EXCEPT
                      ![u].obj = WithConfig([NoInstance EXCEPT
                                                !.kind = IF cfg[4] THEN "GUI"
                                                         ELSE "CLI",
                                                !.id = nobjs + 1],
                                            cfg[1], cfg[2], cfg[3], cfg[4],
                                            cfg[5], cfg[6]),
                      ![u].pc = "assign"]
    /\ nobjs' = nobjs + 1
    /\ UNCHANGED <<instance, started, queue, rendered, calls, last,
                   concVars, guiVars, promptVars, m2, gmain>>

\* UI.__new__: cls.__instance = <the object built>; the started flag and the
\* pending queue are from now on those of that object
NewAssign(u) ==
    /\ uthr[u].pc = "assign"
    /\ instance' = uthr[u].obj
    /\ started' = FALSE
    /\ queue' = IF instance'.kind = "CLI"
                   /\ QueuesBanner(instance'.show_banner, instance'.be_quiet)
                THEN QueuePut(<<>>, Banner) ELSE <<>>
    /\ uthr' = [uthr EXCEPT ![u].pc = "return"]
    /\ UNCHANGED <<nobjs, rendered, calls, last, concVars, guiVars, promptVars,
                   m2, gmain>>

\* UI.__new__: return cls.__instance (UI.__init__ does not run on it)
NewReturn(u) ==
    /\ uthr[u].pc = "return"
    /\ uthr' = [uthr EXCEPT ![u].rets = Append(@, instance.id),
                            ![u].pc = "idle"]
    /\ instance' = IF IsInstanceOfUI(instance.kind)
                   THEN WithConfig(instance, uthr[u].cfg[1], uthr[u].cfg[2],
                                   uthr[u].cfg[3], uthr[u].cfg[4],
                                   uthr[u].cfg[5], uthr[u].cfg[6])
                   ELSE instance
    /\ last' = [op |-> "UI", err |-> "", ret |-> instance.id, force |-> "absent",
                fmt |-> NoFormat]
    /\ UNCHANGED <<nobjs, started, queue, rendered, calls, concVars, guiVars,
                   promptVars, m2, gmain>>

NextNew ==
    \/ \E u \in NewCallers, cfg \in NewConfigs : NewTest(u, cfg)
    \/ \E u \in NewCallers : NewConstruct(u)
    \/ \E u \in NewCallers : NewAssign(u)
    \/ \E u \in NewCallers : NewReturn(u)

SpecNew == Init /\ [][NextNew]_vars

(***************************************************************************)
(* SpecStarts: SpecConc with a second thread that calls start() too.       *)
(***************************************************************************)
\* what the steps of the second start() leave alone, m2 and what each step
\* names apart
starts2Rest == <<ppc, pn, pm, mpc, mitem, handed, instance, nobjs, calls, last,
                 guiVars, promptVars, uthr, gmain>>

\* the second thread calls start()
Start2Enter ==
    /\ m2.pc = "init"
    /\ m2' = [m2 EXCEPT !.pc = "test"]
    /\ UNCHANGED <<started, queue, rendered, starts2Rest>>

\* start(): while not self._queue.empty()
Start2Test ==
    /\ m2.pc = "test"
    /\ m2' = [m2 EXCEPT !.pc = IF queue = <<>> THEN "set" ELSE "get"]
    /\ UNCHANGED <<started, queue, rendered, starts2Rest>>

\* start(): (text, style) = self._queue.get(), which waits for an entry
Start2Get ==
    /\ m2.pc = "get"
    /\ queue # <<>>
    /\ m2' = [m2 EXCEPT !.item = Head(queue), !.pc = "print"]
    /\ queue' = Tail(queue)
    /\ UNCHANGED <<started, rendered, starts2Rest>>

\* start(): self._console.print(text, ...)
Start2Print ==
    /\ m2.pc = "print"
    /\ rendered' = Append(rendered, m2.item)
    /\ m2' = [m2 EXCEPT !.pc = "test"]
    /\ UNCHANGED <<started, queue, starts2Rest>>

\* start(): self._started = True, and return
Start2Set ==
    /\ m2.pc = "set"
    /\ started' = TRUE
    /\ m2' = [m2 EXCEPT !.pc = "returned"]
    /\ UNCHANGED <<queue, rendered, starts2Rest>>

NextStarts ==
    \/ NextConc
    \/ Start2Enter
    \/ Start2Test
    \/ Start2Get
    \/ Start2Print
    \/ Start2Set

SpecStarts == InitConc /\ [][NextStarts]_vars

(***************************************************************************)
(* SpecOwn: SpecRun with blocking calls made by the thread of the loop     *)
(* itself: before it calls start(), or from an event handler that the loop *)
(* runs.  While that thread waits inside such a call it neither starts the *)
(* loop nor runs posted calls, and the user's acts reach no handler.       *)
(***************************************************************************)
\* what the steps of the loop's thread leave alone, evq, sharedQ, gcalls and
\* gmain apart
ownRest == <<loop, frameAlive, modal, response, chan, textArea, cpc, cop, cn,
             cret, cdlg, nquit, pushed, stops, fatalAcked, answered, instance,
             nobjs, started, queue, rendered, calls, last, concVars, promptVars,
             uthr, m2>>

\* the blocking calls, and what each posts with wx.CallAfter
OwnOps == {"confirm", "alert", "login_details", "file_selection"}

OwnTask(op) ==
    CASE op = "confirm"        -> Task("ask_yes_no", "main", 0, "", "")
      [] op = "alert"          -> Task("alert_dialog", "main", 0, "error", "")
      [] op = "login_details"  -> Task("login_dialog", "main", 0, None, None)
      [] op = "file_selection" -> Task("open_file", "main", 0, "", "")

\* GUI.confirm, alert, login_details, file_selection called by the thread of
\* the loop: the dialog is posted and the thread waits, in _wait() on the
\* shared queue or in get() on the Queue made for the request, which only a
\* handler run by the loop puts to
MainCall(op, where) ==
    /\ gmain.pc = "idle"
    /\ gcalls < MaxGuiCalls
    /\ loop = (IF where = "before_start" THEN "idle" ELSE "running")
    /\ evq' = Post(evq, OwnTask(op))
    /\ gcalls' = gcalls + 1
    /\ gmain' = [pc |-> IF op \in {"confirm", "alert"} THEN "wait_shared"
                        ELSE "wait_chan",
                 op |-> op, where |-> where]
    /\ UNCHANGED <<sharedQ, ownRest>>

\* GUI._wait in the thread of the loop: self._queue.get()
MainWaitShared ==
    /\ gmain.pc = "wait_shared"
    /\ sharedQ > 0
    /\ sharedQ' = sharedQ - 1
    /\ gmain' = [gmain EXCEPT !.pc = "idle"]
    /\ UNCHANGED <<evq, gcalls, ownRest>>

\* the thread is not waiting inside a call: it can run the loop
MainFree == gmain.pc = "idle"

\* GUI.start, by the thread of the loop
MainStart == MainFree /\ GuiStart

\* the loop runs the oldest posted call
OwnLoopStep == MainFree /\ LoopStep

\* the user's acts, handled by the loop
OwnUserDismiss == MainFree /\ UserDismiss

OwnUserOther == MainFree /\ UserOther

NextOwn ==
    \/ MainStart
    \/ \E op \in OwnOps, where \in {"before_start", "handler"} : MainCall(op, where)
    \/ MainWaitShared
    \/ \E c \in Callers : CallerCall(c)
    \/ \E c \in Callers : CallerStep(c)
    \/ OwnLoopStep
    \/ OwnUserDismiss
    \/ OwnUserOther

FairOwn ==
    /\ WF_vars(MainStart)
    /\ WF_vars(MainWaitShared)
    /\ WF_vars(OwnLoopStep)
    /\ \A c \in Callers : WF_vars(CallerStep(c))
    /\ WF_vars(OwnUserDismiss)
    /\ SF_vars(MainFree /\ UserLoginCancel)

SpecOwn == InitGUI /\ [][NextOwn]_vars /\ FairOwn

(***************************************************************************)
(* Properties of Spec.                                                     *)
(***************************************************************************)
\* the message a call is expected to show: its number in call order and the
\* style of its severity
MsgOfCall(i) == [src |-> "main", id |-> i, style |-> StyleOf(calls[i].fn)]

\* a call that quiet mode suppresses: an inform without force=True
Suppressed(c) == c.fn = "inform" /\ c.force # "true" /\ instance.be_quiet

\* the messages of the calls made so far that are not suppressed, in call order
ExpectedMsgs ==
    LET idx == SelectSeq([i \in 1..Len(calls) |-> i],
                         LAMBDA i : ~Suppressed(calls[i]))
    IN [j \in 1..Len(idx) |-> MsgOfCall(idx[j])]

\* the banner the constructor queued, if any
BannerPrefix ==
    IF instance.show_banner /\ ~instance.be_quiet THEN <<Banner>> ELSE <<>>

\* every message call so far was made before start()
AllBeforeStart == \A i \in 1..Len(calls) : calls[i].before

\* C1: terminal backend, one caller: when start() has returned after a sequence
\* of inform/warn/alert/alert_fatal calls made before it, the console holds
\* (after the constructor's banner, if one was queued) exactly the messages of
\* those calls that quiet mode does not suppress, each once, in call order,
\* and the pending queue is empty.
C1_RenderedInCallOrder ==
    (instance.kind = "CLI" /\ last.op = "start" /\ AllBeforeStart)
        => (rendered = BannerPrefix \o ExpectedMsgs /\ queue = <<>>)

C1_Witness ==
    /\ instance.kind = "CLI" /\ last.op = "start" /\ AllBeforeStart
    /\ instance.be_quiet
    /\ Len(calls) = 3
    /\ Len(rendered) = 2
    /\ rendered[1].style # rendered[2].style

\* C4: terminal backend built with quiet=true, before and after start(): an
\* inform without force=True leaves the queue and the console unchanged; an
\* inform with force=True, a warn, an alert and an alert_fatal print their
\* message (after start) or append it to the queue (before start).
C4_QuietSuppressesOnlyInform ==
    [][(instance.kind = "CLI" /\ instance.be_quiet /\ calls' # calls) =>
        LET fn == last'.op
            m  == [src |-> "main", id |-> Len(calls'), style |-> StyleOf(fn)]
        IN IF fn = "inform" /\ last'.force # "true"
           THEN UNCHANGED <<queue, rendered>>
           ELSE IF started
                THEN queue' = queue /\ rendered' = Append(rendered, m)
                ELSE queue' = Append(queue, m) /\ rendered' = rendered]_vars

C4_Witness ==
    /\ instance.kind = "CLI" /\ instance.be_quiet /\ started
    /\ Len(calls) = 3
    /\ calls[1].fn = "inform" /\ calls[1].force = "false" /\ calls[1].before
    /\ calls[2].fn = "inform" /\ calls[2].force = "true" /\ calls[2].before
    /\ calls[3].fn = "alert_fatal" /\ ~calls[3].before
    /\ Len(rendered) = 2

\* C5: UI(...) constructs the backend on the first call only: at most one
\* object is ever constructed, every UI(...) call returns it, and a UI(...)
\* call made when the instance exists leaves its configuration, its started
\* flag, its pending queue and its output unchanged.
C5_SingleInstance ==
    /\ [](nobjs <= 1)
    /\ [](last.op = "UI" => (last.ret = 1 /\ instance.id = 1))
    /\ [][(instance.kind # "None" /\ last'.op = "UI") =>
            UNCHANGED <<instance, nobjs, started, queue, rendered>>]_vars

C5_Witness ==
    /\ last.op = "UI" /\ instance.kind = "CLI"
    /\ instance.show_banner /\ ~instance.be_quiet
    /\ ~started /\ Len(queue) = 3

\* C6 as stated: a facade function called before the instance exists fails
\* with the dedicated error kind UIUninitialized.
C6_FailsWithUIUninitialized ==
    (instance.kind = "None" /\ last.op \in FacadeFns)
        => last.err = "UIUninitialized"

\* C6 amended: a facade function called before the instance exists fails with
\* AttributeError (the method lookup on the None that UI.instance() returns);
\* the failed call constructs no instance and shows or queues nothing.
C6_FailsWithAttributeError ==
    (instance.kind = "None" /\ last.op \in FacadeFns)
        => /\ last.err = "AttributeError"
           /\ nobjs = 0
           /\ queue = <<>> /\ rendered = <<>> /\ calls = <<>>

C6_Witness ==
    instance.kind = "None" /\ last.op = "login_details" /\ last.err # ""

\* the banner is the first entry of the pending queue until start(), and the
\* first thing rendered from then on
BannerFirst ==
    /\ ~started => (queue # <<>> /\ queue[1] = Banner /\ rendered = <<>>)
    /\ started => (rendered # <<>> /\ rendered[1] = Banner)

\* the banner is nowhere
BannerNowhere ==
    /\ \A i \in 1..Len(queue) : queue[i] # Banner
    /\ \A i \in 1..Len(rendered) : rendered[i] # Banner

\* C15 as stated: whenever the terminal backend was constructed with
\* show_banner true, the banner is the first entry of the pending queue and
\* the first output start() renders.
C15_BannerWheneverRequested ==
    (instance.kind = "CLI" /\ instance.show_banner) => BannerFirst

\* C15 amended: when the terminal backend was constructed with show_banner
\* true and be_quiet false, the banner is the first entry of the pending
\* queue and the first output start() renders; constructed otherwise, no
\* banner is queued or rendered.
C15_BannerUnlessQuiet ==
    instance.kind = "CLI" =>
        IF instance.show_banner /\ ~instance.be_quiet
        THEN BannerFirst ELSE BannerNowhere

C15_Witness ==
    /\ instance.kind = "CLI" /\ instance.show_banner /\ ~instance.be_quiet
    /\ started /\ Len(rendered) = 3 /\ rendered[1] = Banner
    /\ calls # <<>> /\ calls[1].before

\* a step in which a message call hands its message to _print_or_queue
HandsMessage ==
    /\ instance.kind = "CLI"
    /\ calls' # calls
    /\ ~(last'.op = "inform" /\ last'.force # "true" /\ instance.be_quiet)

\* the message of the call made in this step
NewMsg == [src |-> "main", id |-> Len(calls'), style |-> StyleOf(last'.op)]

\* C16: terminal backend, one caller: a message call that quiet mode does not
\* suppress, made after start() has returned, has rendered its message when
\* it returns and leaves the pending queue unchanged; made before start(), it
\* renders nothing and appends exactly one entry, its message, at the tail of
\* the pending queue.
C16_RenderOrEnqueue ==
    [][HandsMessage =>
         IF started
         THEN rendered' = Append(rendered, NewMsg) /\ queue' = queue
         ELSE /\ rendered' = rendered
              /\ Len(queue') = Len(queue) + 1
              /\ SubSeq(queue', 1, Len(queue)) = queue
              /\ queue'[Len(queue')] = NewMsg]_vars

C16_Witness ==
    /\ instance.kind = "CLI" /\ ~instance.be_quiet /\ ~instance.show_banner
    /\ started /\ last.op = "warn"
    /\ Len(calls) = 2 /\ calls[1].before /\ ~calls[2].before
    /\ Len(rendered) = 2 /\ queue = <<>>

\* C17: terminal backend, one caller: a start() call made when start() has
\* returned before renders nothing and leaves the started flag true and the
\* pending queue empty; what was rendered stays as it is.
C17_StartIdempotent ==
    [][(instance.kind = "CLI" /\ started /\ last'.op = "start") =>
          /\ rendered' = rendered
          /\ started'
          /\ queue = <<>> /\ queue' = <<>>]_vars

C17_Witness ==
    /\ instance.kind = "CLI" /\ last.op = "start"
    /\ Len(calls) = 2 /\ calls[1].before /\ ~calls[2].before
    /\ Len(rendered) = 2 /\ rendered[1].id = 1 /\ rendered[2].id = 2
    /\ queue = <<>>

\* C18: terminal stop() changes nothing: in every state the started flag, the
\* pending queue and the output are after it what they were before it; the
\* started flag, once true, stays true; and a message call made right after
\* stop() is rendered or queued as C16 says.
C18_StopIsNoOp ==
    /\ [][(instance.kind = "CLI" /\ last'.op = "stop") =>
            UNCHANGED <<instance, started, queue, rendered, calls>>]_vars
    /\ [][started => started']_vars
    /\ [][(last.op = "stop" /\ HandsMessage) =>
            IF started
            THEN rendered' = Append(rendered, NewMsg) /\ queue' = queue
            ELSE rendered' = rendered /\ queue' = Append(queue, NewMsg)]_vars

C18_Witness ==
    /\ instance.kind = "CLI" /\ last.op = "stop"
    /\ started /\ Len(rendered) = 2 /\ queue = <<>>
    /\ Len(calls) = 2 /\ ~calls[2].before

\* a step that is a message call on the terminal backend (a call that fails
\* twice in a row leaves the state as it is, and is no step)
MessageCallStep ==
    /\ instance.kind = "CLI"
    /\ last'.op \in MessageFns
    /\ <<last, calls>>' # <<last, calls>>

\* C19 as stated: a message call whose format string does not match its
\* arguments fails with a formatting error in every configuration, quiet
\* mode included, and leaves the pending queue and the output unchanged.
C19_MismatchAlwaysFails ==
    [][(MessageCallStep /\ last'.fmt[1] # last'.fmt[2]) =>
          (last'.err = "IndexError" /\ UNCHANGED <<queue, rendered>>)]_vars

\* C19 amended: a message call whose format string has more replacement
\* fields than arguments were given fails with IndexError and leaves the
\* pending queue, the output and the started flag unchanged, unless it is an
\* inform that quiet mode suppresses: that one returns without formatting.
\* A call given more arguments than fields does not fail.
C19_MissingArgumentFails ==
    [][MessageCallStep =>
         LET suppressed == /\ last'.op = "inform" /\ last'.force # "true"
                           /\ instance.be_quiet
         IN IF ~suppressed /\ last'.fmt[1] > last'.fmt[2]
            THEN /\ last'.err = "IndexError"
                 /\ UNCHANGED <<queue, rendered, started, calls>>
            ELSE /\ last'.err = ""
                 /\ calls' # calls]_vars

C19_Witness ==
    /\ instance.kind = "CLI" /\ instance.be_quiet /\ started
    /\ last.op = "warn" /\ last.err = "IndexError" /\ last.fmt = <<2, 1>>
    /\ Len(calls) = 1 /\ calls[1].fn = "inform" /\ rendered = <<>>

\* m is in what the console has printed after the step
InRenderedNext(m) == \E i \in 1..Len(rendered') : rendered'[i] = m

\* the message an alert_fatal call made in this step hands over
FatalMsg == [src |-> "main", id |-> Len(calls'), style |-> "fatal"]

\* C21: terminal alert_fatal, one caller: the call leaves the instance and the
\* started flag as they are; given arguments for every field of its text it
\* returns without an error, with its message, styled 'fatal', rendered last
\* when start() has returned and at the tail of the pending queue otherwise;
\* and the message call made right after it is rendered or queued as any
\* other, the drain of a later start() rendering what was queued.
C21_FatalOnlyDisplays ==
    /\ [][(MessageCallStep /\ last'.op = "alert_fatal") =>
            /\ UNCHANGED <<instance, started>>
            /\ last'.fmt[1] <= last'.fmt[2] =>
                  /\ last'.err = ""
                  /\ IF started
                     THEN rendered' = Append(rendered, FatalMsg) /\ queue' = queue
                     ELSE rendered' = rendered /\ queue' = Append(queue, FatalMsg)]_vars
    /\ [][(last.op = "alert_fatal" /\ HandsMessage) =>
            IF started
            THEN rendered' = Append(rendered, NewMsg) /\ queue' = queue
            ELSE rendered' = rendered /\ queue' = Append(queue, NewMsg)]_vars
    /\ [][(instance.kind = "CLI" /\ last.op = "alert_fatal" /\ last'.op = "start") =>
            /\ started' /\ queue' = <<>>
            /\ \A i \in 1..Len(queue) : InRenderedNext(queue[i])]_vars

C21_Witness ==
    /\ instance.kind = "CLI" /\ started /\ last.op = "inform" /\ last.err = ""
    /\ Len(calls) = 3 /\ calls[1].fn = "alert_fatal" /\ calls[1].before
    /\ calls[2].fn = "alert_fatal" /\ ~calls[2].before
    /\ Len(rendered) >= 3
    /\ rendered[Len(rendered) - 2].style = "fatal"
    /\ rendered[Len(rendered) - 1].style = "fatal"
    /\ rendered[Len(rendered)].style = "info" /\ rendered[Len(rendered)].id = 3

\* C28: inform and warn through the facade, given arguments for every field
\* of the text, succeed on either backend, with force given or not; on the
\* windowed backend the message of an inform with force=True is then posted
\* for the text area.
C28_SameArgumentsBothBackends ==
    (instance.kind \in {"CLI", "GUI"} /\ last.op \in {"inform", "warn"}
        /\ last.fmt[1] <= last.fmt[2]) =>
       /\ last.err = ""
       /\ (instance.kind = "GUI" /\ last.force = "true") =>
             /\ evq # <<>>
             /\ evq[Len(evq)] = Task("info_message", "main", gcalls, "", "")

(***************************************************************************)
(* Properties of SpecNew.                                                  *)
(***************************************************************************)
\* C31: threads making their first UI(...) calls together: at most one
\* backend object is ever constructed, and every call, of either thread,
\* returns that one object.
C31_OneObjectUnderRace ==
    /\ nobjs <= 1
    /\ \A u, v \in NewCallers :
          \A i \in 1..Len(uthr[u].rets), j \in 1..Len(uthr[v].rets) :
             uthr[u].rets[i] = uthr[v].rets[j]

(***************************************************************************)
(* Properties of SpecConc.                                                 *)
(***************************************************************************)
InQueue(m) == \E i \in 1..Len(queue) : queue[i] = m

InRendered(m) == \E i \in 1..Len(rendered) : rendered[i] = m

\* no producer is inside a message call
ProducersReturned == \A p \in Producers : ppc[p] = "call"

\* the messages a producer's unfinished call still holds
InFlight == {pm[p] : p \in {x \in Producers : ppc[x] # "call"}}

\* C2: terminal backend with producers running concurrently with start(): no
\* message handed to _print_or_queue is both queued and rendered; when no
\* call holds a message in its hands, each is queued or rendered; and once
\* start() and every producer's call have returned, none is left in the
\* pending queue.
C2_NoMessageLeftQueued ==
    /\ \A m \in handed : ~(InQueue(m) /\ InRendered(m))
    /\ (ProducersReturned /\ mpc # "print")
          => \A m \in handed : InQueue(m) \/ InRendered(m)
    /\ (ProducersReturned /\ mpc = "returned") => queue = <<>>

\* the entries of the queue that producer p put, in queue order
QueuedBy(p) == SelectSeq(queue, LAMBDA m : m.src = p)

\* C3: producers calling concurrently before start(): at every moment before
\* the drain the pending queue holds, after the banner, exactly the messages
\* whose put has completed, each once, and those of each producer in that
\* producer's call order; when all calls have returned that is every message
\* handed to _print_or_queue.
C3_ConcurrentEnqueue ==
    mpc = "init" =>
        /\ {queue[i] : i \in 1..Len(queue)} =
               (handed \ InFlight)
                 \cup (IF QueuesBanner(instance.show_banner, instance.be_quiet)
                       THEN {Banner} ELSE {})
        /\ Cardinality({queue[i] : i \in 1..Len(queue)}) = Len(queue)
        /\ \A p \in Producers :
              \A i, j \in 1..Len(QueuedBy(p)) :
                 i < j => QueuedBy(p)[i].id < QueuedBy(p)[j].id
        /\ \A i \in 1..Len(queue) : queue[i] = Banner => i = 1

C3_Witness ==
    /\ mpc = "init" /\ ProducersReturned
    /\ Cardinality(handed) = 4
    /\ Len(queue) = 4
    /\ queue[1].src = "p1" /\ queue[2].src = "p2"
    /\ queue[3].src = "p1" /\ queue[4].src = "p2"

\* C22: terminal backend with producers running concurrently with start():
\* the messages of each producer are rendered in that producer's call order,
\* none is rendered while a message the same producer handed over earlier is
\* still in the pending queue, and none is rendered twice.
C22_OrderAcrossSwitch ==
    /\ \A i, j \in 1..Len(rendered) :
          (i < j /\ rendered[i].src = rendered[j].src
                 /\ rendered[i].src \in Producers)
             => rendered[i].id < rendered[j].id
    /\ \A i \in 1..Len(rendered), j \in 1..Len(queue) :
          rendered[i].src = queue[j].src => rendered[i].id < queue[j].id
    /\ Cardinality({rendered[i] : i \in 1..Len(rendered)}) = Len(rendered)

(***************************************************************************)
(* Properties of SpecStarts.                                               *)
(***************************************************************************)
\* every producer has made all its calls and returned: no put is to come
ProducersFinished ==
    \A p \in Producers : ppc[p] = "call" /\ pn[p] = MaxProdCalls

\* C32: terminal start(), with producers and a second start() running
\* concurrently: once the producers have finished, no start() call waits in
\* self._queue.get() on an empty queue, where nothing would ever wake it.
C32_StartNeverBlocked ==
    (ProducersFinished /\ queue = <<>>) => (mpc # "get" /\ m2.pc # "get")

(***************************************************************************)
(* Properties of SpecGUI and SpecRun.                                      *)
(***************************************************************************)
\* the request caller c is making or has last made
Pending(c) == \E i \in 1..Len(evq) : evq[i].c = c /\ evq[i].n = cn[c]

Shown(c) == \E i \in 1..Len(modal) : modal[i].c = c /\ modal[i].n = cn[c]

\* the login dialog of c's request has been shown and has ended
LoginEnded(c) ==
    /\ cop[c] = "login_details"
    /\ loop = "running"
    /\ ~Pending(c) /\ ~Shown(c)

\* C7: for every login_details request the dialog's code puts at most one
\* result on the request's Queue, whatever the user does, and exactly one
\* once the dialog has ended.
C7_ExactlyOneLoginResult ==
    \A c \in Callers :
        cop[c] = "login_details" =>
            /\ pushed[c][cn[c]] <= 1
            /\ LoginEnded(c) => pushed[c][cn[c]] = 1

\* C8: every confirm, login_details and file_selection call made while the
\* frame lives returns in the end, with the loop processing the posted calls
\* and the user dismissing each dialog, for each of the concurrent callers.
C8_PromptCallsReturn ==
    \A c \in Callers :
        (cop[c] \in PromptFns /\ cpc[c] # "idle") ~> (cpc[c] = "idle")

C8_Witness ==
    /\ cpc["t1"] = "idle" /\ cop["t1"] = "login_details"
    /\ cret["t1"].kind = "login" /\ ~cret["t1"].cancelled
    /\ cpc["t2"] = "idle" /\ cop["t2"] = "confirm"
    /\ cret["t2"].kind = "bool" /\ cret["t2"].val = "True"
    /\ sharedQ = 0 /\ modal = <<>> /\ evq = <<>>

\* C9: once the frame is destroyed and the loop has exited, a caller waiting
\* in login_details or file_selection has a result to take from its Queue.
\* (Nothing puts a result there after the loop has exited, so a caller
\* without one waits for ever.)
C9_TeardownUnblocksWaiters ==
    \A c \in Callers :
        (loop = "exited" /\ cpc[c] = "wait_chan") => chan[c] # <<>>

\* nothing is posted, shown or running that could still act
Quiescent ==
    /\ evq = <<>>
    /\ modal = <<>>
    /\ \A c \in Callers : cpc[c] = "idle"

\* C10: once the user has acknowledged a fatal alert and everything that
\* the acknowledgement set off has run, the frame is destroyed and the loop
\* has exited.
C10_FatalAlertStops ==
    (fatalAcked /\ Quiescent) => (loop = "exited" /\ ~frameAlive)

\* C14: no caller thread builds, shows or keeps a frame or dialog of its
\* own: every widget is made by a call the event loop runs.
C14_WidgetsOnlyOnLoop ==
    \A c \in Callers : cpc[c] # "sync_dialog" /\ cdlg[c].kind = "none"

\* the dialog of c's current request is still to be shown or is on screen
OwnDialogOpen(c) == Pending(c) \/ Shown(c) \/ cpc[c] = "sync_dialog"

\* C23: windowed backend, callers blocked concurrently in confirm and alert:
\* when alert_fatal has posted its 'stop' message and returned, the user has
\* dismissed the dialog of that fatal alert.
C23_StopAfterOwnDismissal ==
    \A c \in Callers :
        (cop[c] = "alert_fatal" /\ cpc[c] = "idle") => ~OwnDialogOpen(c)

\* C24: windowed backend, while the loop runs: a confirm call that has
\* returned has had its own question answered by the user, and has returned
\* the answer given to that question.
C24_OwnAnswerReturned ==
    \A c \in Callers :
        (loop = "running" /\ cop[c] = "confirm" /\ cpc[c] = "idle") =>
            /\ answered[c].n = cn[c]
            /\ cret[c].val = answered[c].ans

\* request n of caller c is an inform or warn whose message is posted and
\* not yet appended
InfoPosted(c, n) ==
    \E i \in 1..Len(evq) :
        evq[i].task = "info_message" /\ evq[i].c = c /\ evq[i].n = n

\* the lines of the text area that request n of caller c appended
LinesOf(c, n) == {i \in 1..Len(textArea) : textArea[i].c = c /\ textArea[i].n = n}

\* the posted calls that are messages, in the order posted
InfoTasks == SelectSeq(evq, LAMBDA t : t.task = "info_message")

\* C25: windowed backend while the frame lives: inform and warn return
\* without waiting; the lines one caller's calls have appended to the text
\* area are in call order, none twice, and older than its messages still
\* posted, which are in call order too; the message of a call that has
\* returned without an error is posted or appended; and every message
\* posted, before the loop started or after, is appended in the end.
C25_InformAppendsInOrder ==
    /\ [](\A c \in Callers : cop[c] \in {"inform", "warn"} => cpc[c] = "idle")
    /\ [](\A i, j \in 1..Len(textArea) :
             (i < j /\ textArea[i].c = textArea[j].c /\ textArea[i].c \in Callers)
                => textArea[i].n < textArea[j].n)
    /\ [](\A i, j \in 1..Len(InfoTasks) :
             (i < j /\ InfoTasks[i].c = InfoTasks[j].c)
                => InfoTasks[i].n < InfoTasks[j].n)
    /\ [](\A i \in 1..Len(textArea), j \in 1..Len(InfoTasks) :
             textArea[i].c = InfoTasks[j].c => textArea[i].n < InfoTasks[j].n)
    /\ [](\A c \in Callers :
             (cop[c] \in {"inform", "warn"} /\ cret[c].kind # "raise")
                => (InfoPosted(c, cn[c]) \/ Cardinality(LinesOf(c, cn[c])) = 1))
    /\ \A c \in Callers, n \in 1..MaxGuiCalls :
          InfoPosted(c, n) ~> (Cardinality(LinesOf(c, n)) = 1)

C25_Witness ==
    /\ loop = "running" /\ evq = <<>>
    /\ cn["t1"] = 2 /\ cop["t1"] = "warn" /\ cpc["t1"] = "idle"
    /\ Len(textArea) = 2
    /\ textArea[1] = [c |-> "t1", n |-> 1, prefix |-> ""]
    /\ textArea[2] = [c |-> "t1", n |-> 2, prefix |-> "Warning: "]

\* the login dialog the user's act reaches: the one on top, or the one
\* beneath the question about incomplete values
ActingLogin == IF Top.kind = "complain" THEN Beneath[Len(Beneath)] ELSE Top

\* a step in which the login dialog the user acts on puts results on the
\* Queue its caller is waiting on or has just read
LoginPushStep ==
    /\ modal # <<>>
    /\ Top.kind \in {"login", "complain"}
    /\ ActingLogin.n = cn[ActingLogin.c]
    /\ Len(pushed'[ActingLogin.c]) = Len(pushed[ActingLogin.c])
    /\ pushed'[ActingLogin.c] # pushed[ActingLogin.c]

\* the results put in this step
NewResults ==
    SubSeq(chan'[ActingLogin.c], Len(chan[ActingLogin.c]) + 1,
           Len(chan'[ActingLogin.c]))

\* C26: windowed login dialog: every result the dialog puts with cancelled
\* true carries the user and password that login_details was called with,
\* whatever the fields hold; every result it puts with cancelled false
\* carries what the fields hold, and neither is blank.
C26_LoginResultValues ==
    [][LoginPushStep =>
         /\ Len(NewResults) =
               pushed'[ActingLogin.c][ActingLogin.n]
                 - pushed[ActingLogin.c][ActingLogin.n]
         /\ \A i \in 1..Len(NewResults) :
               LET r == NewResults[i]
               IN /\ r.kind = "login"
                  /\ IF r.cancelled
                     THEN r.user = ActingLogin.user /\ r.pswd = ActingLogin.pswd
                     ELSE /\ r.user = ActingLogin.login
                          /\ r.pswd = ActingLogin.password
                          /\ Strip(r.user) # "" /\ Strip(r.pswd) # ""]_vars

\* the user typed other values, gave up at the question about incomplete
\* values, and the caller has the defaults back
C26_Witness ==
    /\ modal # <<>> /\ Top.kind = "login" /\ Top.c = "t1" /\ Top.cancel
    /\ Top.login = "bob" /\ Top.password = " "
    /\ Top.user = "alice" /\ Top.pswd = "pw"
    /\ cpc["t1"] = "idle" /\ cop["t1"] = "login_details"
    /\ cret["t1"] = [NoReturn EXCEPT !.kind = "login", !.user = "alice",
                                     !.pswd = "pw", !.cancelled = TRUE]

\* a step in which c calls alert or alert_fatal while the app has no window:
\* the main frame is destroyed and no caller has left a frame of its own
WindowlessAlertCall(c) ==
    /\ cn'[c] = cn[c] + 1
    /\ cop'[c] \in {"alert", "alert_fatal"}
    /\ ~frameAlive
    /\ \A d \in Callers : cdlg[d].kind = "none"

\* no caller other than c is inside a call
OthersIdle(c) == \A d \in Callers \ {c} : cpc[d] = "idle"

PutsToken == sharedQ' = sharedQ + 1

PostsStop == evq' = Append(evq, StopTask)

PostsNothing == evq' = evq

\* C29: windowed non-fatal alert, shown by the loop or by the caller itself:
\* answering No posts one 'stop' message and puts one token; answering Yes
\* or closing the dialog posts nothing and puts one token; pressing Help
\* posts nothing and puts no token until the details are closed, which puts
\* one token and posts nothing.
C29_NonFatalStopsOnlyOnNo ==
    /\ [][\A choice \in {"yes", "no", "close"} :
            (modal # <<>> /\ Top.a = "error" /\ UserAlert(choice)) =>
               /\ PutsToken
               /\ IF choice = "no" THEN PostsStop ELSE PostsNothing]_vars
    /\ [][(modal # <<>> /\ Top.a = "error" /\ UserAlertHelp) =>
            (sharedQ' = sharedQ /\ PostsNothing)]_vars
    /\ [][(modal # <<>> /\ Top.a = "error" /\ UserHelpClose) =>
            (PutsToken /\ PostsNothing)]_vars
    /\ [][\A c \in Callers, choice \in {"yes", "no", "help", "close"} :
            (cdlg[c].a = "error" /\ UserSyncAlert(c, choice)) =>
               IF cdlg[c].kind = "alert" /\ choice = "help"
               THEN sharedQ' = sharedQ /\ PostsNothing
               ELSE /\ PutsToken
                    /\ IF choice = "no" THEN PostsStop ELSE PostsNothing]_vars

\* the user answered No to a non-fatal alert, the only source of the 'stop'
\* that was published, and the caller has resumed
C29_Witness ==
    /\ loop = "running" /\ cop["t1"] = "alert" /\ cpc["t1"] = "idle"
    /\ cn["t1"] = 1 /\ cn["t2"] = 0
    /\ stops = 1 /\ ~fatalAcked /\ nquit = 0
    /\ sharedQ = 0 /\ modal = <<>>

\* the calls that wait on the shared queue
SharedOps == {"confirm", "alert", "alert_fatal"}

\* c is inside confirm, alert or alert_fatal
InSharedCall(c) == cop[c] \in SharedOps /\ cpc[c] # "idle"

\* C30: windowed backend token balance: a dialog of confirm, alert or
\* alert_fatal that ends puts one token on the shared queue, a call that
\* leaves its wait has taken one, and whenever no caller is inside confirm,
\* alert or alert_fatal the shared queue is empty.
C30_TokenBalance ==
    /\ []((\A c \in Callers : ~InSharedCall(c)) => sharedQ = 0)
    /\ [][(loop' = loop /\ modal # <<>> /\ modal' = Beneath
             /\ Top.kind \in {"yesno", "alert", "help"}) => PutsToken]_vars
    /\ [][\A c \in Callers :
            (cpc[c] = "wait_shared" /\ cpc'[c] # "wait_shared") =>
               sharedQ' = sharedQ - 1]_vars

\* two callers were inside confirm and alert together, each dialog was
\* answered, and both have returned
C30_Witness ==
    /\ cop["t1"] = "confirm" /\ cop["t2"] = "alert"
    /\ cpc["t1"] = "idle" /\ cpc["t2"] = "idle"
    /\ cret["t1"].kind = "bool"
    /\ modal = <<>> /\ evq = <<>> /\ sharedQ = 0 /\ loop = "running"

(***************************************************************************)
(* Properties of SpecOwn.                                                  *)
(***************************************************************************)
\* C33: windowed backend: a confirm, alert, login_details or file_selection
\* call made by the thread of the loop, before start() or from an event
\* handler, returns in the end.
C33_OwnThreadCallReturns ==
    (gmain.pc # "idle") ~> (gmain.pc = "idle")

(***************************************************************************)
(* Properties of SpecPrompt.                                               *)
(***************************************************************************)
\* the last terminal prompt call was of op and has ended
Ended(op) == tcall.op = op /\ tpc = "idle"

\* C11: every terminal confirm call ends by returning a boolean, and that
\* boolean is False when the input stream was closed or an interrupt arrived.
C11_ConfirmReturnsBoolean ==
    Ended("confirm") =>
        /\ tret.kind = "bool"
        /\ tcall.evUser \in {"eof", "int"} => ~tret.yes

Alice == <<"a", "l", "i", "c", "e">>

\* login_details was called with user 'alice' and no password
AliceNoPswd == Ended("login_details") /\ tcall.user = Alice /\ tcall.pswd = NoStr

\* the user submitted an empty line at both prompts
BothEmpty ==
    /\ tcall.evUser = "line" /\ tcall.typedUser = <<>>
    /\ tcall.evPswd = "line" /\ tcall.typedPswd = <<>>

\* the user typed nothing and interrupted one of the prompts
CancelledUnedited ==
    \/ tcall.evUser = "int"
    \/ tcall.evUser = "line" /\ tcall.typedUser = <<>> /\ tcall.evPswd = "int"

LoginResult(user, pswd, cancelled) ==
    [NoResult EXCEPT !.kind = "login", !.user = user, !.pswd = pswd,
                     !.cancelled = cancelled]

\* C12 as stated: terminal login_details with user 'alice' and no password
\* default returns ('', '', False) when both inputs are empty, and
\* ('alice', '', True) when the user cancels without edits.
C12_AsStated ==
    AliceNoPswd =>
        /\ BothEmpty => tret = LoginResult(<<>>, <<>>, FALSE)
        /\ CancelledUnedited => tret = LoginResult(Alice, <<>>, TRUE)

\* C12 amended: terminal login_details with user 'alice' and no password
\* default returns ('alice', '', False) when both inputs are empty (the empty
\* user input takes the default), and ('alice', None, True) when the user
\* cancels without edits (the arguments are returned as they were given).
C12_DefaultsTaken ==
    AliceNoPswd =>
        /\ BothEmpty => tret = LoginResult(Alice, <<>>, FALSE)
        /\ CancelledUnedited => tret = LoginResult(Alice, NoStr, TRUE)

C12_Witness ==
    AliceNoPswd /\ BothEmpty /\ tret.user = Alice /\ ~tret.cancelled

\* an interrupt arrived while the last call was blocked at a prompt
Interrupted == tcall.evUser = "int" \/ tcall.evPswd = "int"

\* C13: a terminal login_details or file_selection call interrupted at a
\* prompt ends by returning, never by raising; login_details returns its user
\* and pswd arguments with cancelled True.
C13_InterruptRecovered ==
    /\ (Ended("login_details") /\ Interrupted)
          => tret = LoginResult(tcall.user, tcall.pswd, TRUE)
    /\ (Ended("file_selection") /\ Interrupted) => tret.kind # "raise"

\* C20: a terminal login_details call that returns not cancelled returns a
\* str for user and for password, never None, whatever the defaults and the
\* inputs; an empty input without a default gives ''.
C20_NeverNone ==
    (Ended("login_details") /\ tret.kind = "login" /\ ~tret.cancelled) =>
        /\ tret.user # NoStr /\ tret.pswd # NoStr
        /\ (tcall.user = NoStr /\ tcall.typedUser = <<>>) => tret.user = <<>>
        /\ (tcall.pswd = NoStr /\ tcall.typedPswd = <<>>) => tret.pswd = <<>>

C20_Witness ==
    /\ Ended("login_details") /\ tret.kind = "login" /\ ~tret.cancelled
    /\ tcall.user = NoStr /\ tcall.pswd = NoStr
    /\ tcall.typedUser = <<>> /\ tcall.evPswd = "line" /\ tcall.typedPswd = <<>>
    /\ tret.user = <<>> /\ tret.pswd = <<>>

=============================================================================
